---- MODULE Spec2Model ----
(***************************************************************************)
(* State-machine model of contracts/Reporting.sol: the civic report        *)
(* lifecycle contract (createReport, voteOnReport, markAsSolved,           *)
(* rejectIssue) together with the passage of block time, the backend's     *)
(* submit endpoint in front of it, and the identity simulator that issues  *)
(* proofs and nullifiers.                                                  *)
(*                                                                         *)
(* A transaction that reverts leaves the contract storage untouched and    *)
(* emits nothing; the model records the outcome of the last transaction    *)
(* (lastOp) and the events it emitted (events) so that both accepted and   *)
(* rejected calls are observable.                                          *)
(***************************************************************************)
EXTENDS Integers, Sequences, FiniteSets, TLC

VARIABLES
    now,                  \* block.timestamp of the block being executed
    nextReportId,         \* uint256 public nextReportId
    reports,              \* mapping(uint256 => Report), restricted to written keys
    submissionNullifiers, \* keys of submissionNullifiers mapped to true
    reportVotes,          \* <<reportId, phase, nullifier>> triples mapped to true
    lastOp,               \* function and outcome of the last transaction
    events,               \* events emitted by the last transaction, in order
    pipeline,             \* the off-chain submission being handled, or the last one
    authentication        \* the identity simulator's last request and its answer

vars == <<now, nextReportId, reports, submissionNullifiers, reportVotes, lastOp, events,
         pipeline, authentication>>

\* The contract's storage.
storage == <<nextReportId, reports, submissionNullifiers, reportVotes>>

----------------------------------------------------------------------------
(* Bounds of the model *)

\* Voting nullifiers available per (report, phase): enough for three full
\* verification rounds of one report.
MaxNull == 9
\* Reports that may be created in SpecMulti.
MaxReports == 2
\* Votes that may be cast in total in SpecMulti.
MaxVotes == 5
\* Latest block timestamp at which SpecClock may start (1 .. MaxStart).
MaxStart == 2
\* Rejection-review nullifiers available to the appeals of one report.
MaxAppealNull == 12

----------------------------------------------------------------------------
(* Program constants *)

VALIDATION_THRESHOLD == 3
REJECTION_THRESHOLD == 3
VERIFICATION_THRESHOLD == 3
REOPEN_THRESHOLD == 3
APPEAL_THRESHOLD == 3
UPHOLD_REJECTION_THRESHOLD == 3
REOPEN_LIMIT == 3
\* 7 days, in seconds
EXPIRATION_TIMEOUT == 604800

\* address(0)
AUTOMATIC_TRANSITION == "0x0"

ReportStatus ==
    { "Pending_Validation", "Community_Rejected", "Open",
      "Pending_Rejection_Review", "Pending_Verification", "Closed", "Reopened" }

VotingPhase == { "Validation", "Rejection_Review", "Verification" }

DEFAULT_ADMIN_ROLE == "DEFAULT_ADMIN_ROLE"
RELAYER_ROLE == "RELAYER_ROLE"
AUTHORITY_ROLE == "AUTHORITY_ROLE"

----------------------------------------------------------------------------
(* Accounts and roles: the deployment of the test fixture *)

Deployer == "admin"
Relayer == "relayer"
GovNode == "govNode"
NgoNode == "ngoNode"
IntlNode == "intlNode"
Citizen == "citizen1"

Accounts == { Deployer, Relayer, GovNode, NgoNode, IntlNode, Citizen }

\* One caller of each kind: no role used by the contract's functions, the
\* relayer, an authority.
Callers == { Deployer, Relayer, GovNode }

\* The grants made by the constructor.
RoleMembers(role) ==
    CASE role = DEFAULT_ADMIN_ROLE -> { Deployer }
      [] role = RELAYER_ROLE -> { Relayer }
      [] role = AUTHORITY_ROLE -> { GovNode, NgoNode, IntlNode }
      [] OTHER -> {}

\* AccessControl.hasRole as used by the onlyRole modifier.
HasRole(role, account) == account \in RoleMembers(role)

----------------------------------------------------------------------------
(* Outcomes of a transaction: "ok" or the revert reason *)

Ok == "ok"
AccessDenied == "AccessControlUnauthorizedAccount"
DuplicateSubmission == "Report already submitted by this citizen"
DuplicateVote == "Citizen already voted in this phase"
ReportNotFound == "Report does not exist"
ReportExpired == "Report has expired - no further voting allowed"
NotInValidation == "Not in validation phase"
NotInRejectionReview == "Not in rejection review phase"
NotInVerification == "Not in verification phase"
InvalidStateSolve == "Invalid state to mark as solved"
InvalidStateReject == "Invalid state to reject"

WrongPhaseForStatus == { NotInValidation, NotInRejectionReview, NotInVerification }
InvalidStateForAction == { InvalidStateSolve, InvalidStateReject }

----------------------------------------------------------------------------
(* Inputs *)

Least(S) == CHOOSE n \in S : \A m \in S : n <= m
Greatest(S) == CHOOSE n \in S : \A m \in S : m <= n

\* Evidence references (ipfsCID strings).
CIDs == { "ipfs://QmA", "ipfs://QmB" }
OneCID == { "ipfs://QmA" }

\* Submission nullifiers (bytes32) tried by createReport: every one already
\* consumed and, while fewer than maxReports reports exist, the least one that
\* is not (nullifiers are opaque: the contract only tests membership).
SubmissionInputs(maxReports) ==
    submissionNullifiers \cup
    (IF nextReportId < maxReports
     THEN { Least((1..maxReports) \ submissionNullifiers) }
     ELSE {})

\* Report ids a caller may name: every created id and the next, unused one.
IdInputs == 0..nextReportId

\* Nullifiers registered for (id, phase).
Registered(id, phase) == { t[3] : t \in { v \in reportVotes : v[1] = id /\ v[2] = phase } }

\* Voting nullifiers tried for (id, phase): the oldest and the newest one
\* registered there, and the least one that is not (nullifiers are opaque:
\* the contract only tests membership of the triple).
VoteInputs(id, phase, maxNull) ==
    LET used == Registered(id, phase)
        free == (1..maxNull) \ used
    IN  (IF used = {} THEN {} ELSE { Least(used), Greatest(used) }) \cup
        (IF free = {} THEN {} ELSE { Least(free) })

----------------------------------------------------------------------------
(* Storage records *)

\* Variant: the zero value of the status enum is Open.
ZeroReport_DefaultOpen ==
    [ id |-> 0, ipfsCID |-> "", submissionNullifier |-> 0,
      status |-> "Open", createdAt |-> 0,
      actionedBy |-> AUTOMATIC_TRANSITION, votesFor |-> 0, votesAgainst |-> 0,
      reopenCount |-> 0, expiresAt |-> 0 ]

\* The value a mapping(uint256 => Report) returns for a key never written.
ZeroReport ==
    [ id |-> 0, ipfsCID |-> "", submissionNullifier |-> 0,
      status |-> "Pending_Validation", createdAt |-> 0,
      actionedBy |-> AUTOMATIC_TRANSITION, votesFor |-> 0, votesAgainst |-> 0,
      reopenCount |-> 0, expiresAt |-> 0 ]

ReportAt(id) == IF id \in DOMAIN reports THEN reports[id] ELSE ZeroReport

(* Events *)
ReportCreated(reportId, ipfsCID, timestamp) ==
    [ name |-> "ReportCreated", reportId |-> reportId, ipfsCID |-> ipfsCID,
      timestamp |-> timestamp ]

StatusChanged(reportId, oldStatus, newStatus, changedBy) ==
    [ name |-> "StatusChanged", reportId |-> reportId, oldStatus |-> oldStatus,
      newStatus |-> newStatus, changedBy |-> changedBy ]

VoteCast(reportId, voteDirection, currentStatus) ==
    [ name |-> "VoteCast", reportId |-> reportId, voteDirection |-> voteDirection,
      currentStatus |-> currentStatus ]

Op(function, result) == [ function |-> function, result |-> result ]

\* No transaction: the state after deployment, or after time alone has passed.
NoOp == Op("none", "ok")

----------------------------------------------------------------------------
(* Internal state machine logic.  Each function takes and returns the pair *)
(* (report, emitted events).                                               *)

\* Variant: the event names the account stored in actionedBy.
_changeStatus_NamesLastActor(st, newStatus) ==
    [ report |-> [st.report EXCEPT !.status = newStatus],
      emitted |-> Append(st.emitted,
                    StatusChanged(st.report.id, st.report.status, newStatus,
                                  st.report.actionedBy)) ]

_changeStatus(st, newStatus) ==
    [ report |-> [st.report EXCEPT !.status = newStatus],
      emitted |-> Append(st.emitted,
                    StatusChanged(st.report.id, st.report.status, newStatus,
                                  AUTOMATIC_TRANSITION)) ]

\* Variant: the threshold is compared before the vote is counted.
_processValidationVote_ChecksBeforeCounting(st, voteDirection) ==
    IF voteDirection
    THEN LET s1 == [st EXCEPT !.report.votesFor = @ + 1]
         IN  IF st.report.votesFor >= VALIDATION_THRESHOLD
             THEN _changeStatus(s1, "Open") ELSE s1
    ELSE LET s1 == [st EXCEPT !.report.votesAgainst = @ + 1]
         IN  IF s1.report.votesAgainst >= REJECTION_THRESHOLD
             THEN _changeStatus(s1, "Community_Rejected") ELSE s1

\* Variant: the community rejects only with more votes against than for.
_processValidationVote_RejectionNeedsMajority(st, voteDirection) ==
    IF voteDirection
    THEN LET s1 == [st EXCEPT !.report.votesFor = @ + 1]
         IN  IF s1.report.votesFor >= VALIDATION_THRESHOLD
             THEN _changeStatus(s1, "Open") ELSE s1
    ELSE LET s1 == [st EXCEPT !.report.votesAgainst = @ + 1]
         IN  IF /\ s1.report.votesAgainst >= REJECTION_THRESHOLD
                /\ s1.report.votesAgainst > s1.report.votesFor + 1
             THEN _changeStatus(s1, "Community_Rejected") ELSE s1

\* Variant: the validation thresholds have to be exceeded, not reached.
_processValidationVote_StrictThreshold(st, voteDirection) ==
    IF voteDirection
    THEN LET s1 == [st EXCEPT !.report.votesFor = @ + 1]
         IN  IF s1.report.votesFor > VALIDATION_THRESHOLD
             THEN _changeStatus(s1, "Open") ELSE s1
    ELSE LET s1 == [st EXCEPT !.report.votesAgainst = @ + 1]
         IN  IF s1.report.votesAgainst > REJECTION_THRESHOLD
             THEN _changeStatus(s1, "Community_Rejected") ELSE s1

_processValidationVote(st, voteDirection) ==
    IF voteDirection
    THEN LET s1 == [st EXCEPT !.report.votesFor = @ + 1]
         IN  IF s1.report.votesFor >= VALIDATION_THRESHOLD
             THEN _changeStatus(s1, "Open") ELSE s1
    ELSE LET s1 == [st EXCEPT !.report.votesAgainst = @ + 1]
         IN  IF s1.report.votesAgainst >= REJECTION_THRESHOLD
             THEN _changeStatus(s1, "Community_Rejected") ELSE s1

\* Variant: a successful appeal reopens the report instead of returning it to
\* Open.
_processRejectionReviewVote_AppealReopens(st, voteDirection) ==
    IF voteDirection
    THEN LET s1 == [st EXCEPT !.report.votesFor = @ + 1]
         IN  IF s1.report.votesFor >= UPHOLD_REJECTION_THRESHOLD
             THEN _changeStatus(s1, "Closed") ELSE s1
    ELSE LET s1 == [st EXCEPT !.report.votesAgainst = @ + 1]
         IN  IF s1.report.votesAgainst >= APPEAL_THRESHOLD
             THEN _changeStatus(s1, "Reopened") ELSE s1

\* Variant: the directions keep their validation meaning (true opens, false
\* closes).
_processRejectionReviewVote_NotInverted(st, voteDirection) ==
    IF voteDirection
    THEN LET s1 == [st EXCEPT !.report.votesFor = @ + 1]
         IN  IF s1.report.votesFor >= UPHOLD_REJECTION_THRESHOLD
             THEN _changeStatus(s1, "Open") ELSE s1
    ELSE LET s1 == [st EXCEPT !.report.votesAgainst = @ + 1]
         IN  IF s1.report.votesAgainst >= APPEAL_THRESHOLD
             THEN _changeStatus(s1, "Closed") ELSE s1

\* Variant: a rejection-review vote tests the threshold before it counts, so
\* the transition is left to the vote after the one that reaches it.
_processRejectionReviewVote_ChecksBeforeCounting(st, voteDirection) ==
    IF voteDirection
    THEN LET s1 == [st EXCEPT !.report.votesFor = @ + 1]
         IN  IF st.report.votesFor >= UPHOLD_REJECTION_THRESHOLD
             THEN _changeStatus(s1, "Closed") ELSE s1
    ELSE LET s1 == [st EXCEPT !.report.votesAgainst = @ + 1]
         IN  IF st.report.votesAgainst >= APPEAL_THRESHOLD
             THEN _changeStatus(s1, "Open") ELSE s1

\* Variant: a successful appeal is counted as a reopen round, and the round
\* that reaches REOPEN_LIMIT closes the report.
_processRejectionReviewVote_AppealsCounted(st, voteDirection) ==
    IF voteDirection
    THEN LET s1 == [st EXCEPT !.report.votesFor = @ + 1]
         IN  IF s1.report.votesFor >= UPHOLD_REJECTION_THRESHOLD
             THEN _changeStatus(s1, "Closed") ELSE s1
    ELSE LET s1 == [st EXCEPT !.report.votesAgainst = @ + 1]
         IN  IF s1.report.votesAgainst >= APPEAL_THRESHOLD
             THEN LET s2 == [s1 EXCEPT !.report.reopenCount = @ + 1]
                  IN  IF s2.report.reopenCount >= REOPEN_LIMIT
                      THEN _changeStatus(s2, "Closed")
                      ELSE _changeStatus(s2, "Open")
             ELSE s1

_processRejectionReviewVote(st, voteDirection) ==
    IF voteDirection
    THEN LET s1 == [st EXCEPT !.report.votesFor = @ + 1]
         IN  IF s1.report.votesFor >= UPHOLD_REJECTION_THRESHOLD
             THEN _changeStatus(s1, "Closed") ELSE s1
    ELSE LET s1 == [st EXCEPT !.report.votesAgainst = @ + 1]
         IN  IF s1.report.votesAgainst >= APPEAL_THRESHOLD
             THEN _changeStatus(s1, "Open") ELSE s1

\* Variant: the limit is compared with > instead of >=.
_processVerificationVote_LimitOffByOne(st, voteDirection) ==
    IF voteDirection
    THEN LET s1 == [st EXCEPT !.report.votesFor = @ + 1]
         IN  IF s1.report.votesFor >= VERIFICATION_THRESHOLD
             THEN _changeStatus(s1, "Closed") ELSE s1
    ELSE LET s1 == [st EXCEPT !.report.votesAgainst = @ + 1]
         IN  IF s1.report.votesAgainst >= REOPEN_THRESHOLD
             THEN LET s2 == [s1 EXCEPT !.report.reopenCount = @ + 1]
                  IN  IF s2.report.reopenCount > REOPEN_LIMIT
                      THEN _changeStatus(s2, "Closed")
                      ELSE _changeStatus(s2, "Reopened")
             ELSE s1

\* Variant: a confirmed fix is counted as a reopen round.
_processVerificationVote_ClosureCountsReopen(st, voteDirection) ==
    IF voteDirection
    THEN LET s1 == [st EXCEPT !.report.votesFor = @ + 1]
         IN  IF s1.report.votesFor >= VERIFICATION_THRESHOLD
             THEN _changeStatus([s1 EXCEPT !.report.reopenCount = @ + 1], "Closed")
             ELSE s1
    ELSE LET s1 == [st EXCEPT !.report.votesAgainst = @ + 1]
         IN  IF s1.report.votesAgainst >= REOPEN_THRESHOLD
             THEN LET s2 == [s1 EXCEPT !.report.reopenCount = @ + 1]
                  IN  IF s2.report.reopenCount >= REOPEN_LIMIT
                      THEN _changeStatus(s2, "Closed")
                      ELSE _changeStatus(s2, "Reopened")
             ELSE s1

\* Variant: a failed verification hands the report back as Open.
_processVerificationVote_ReopensToOpen(st, voteDirection) ==
    IF voteDirection
    THEN LET s1 == [st EXCEPT !.report.votesFor = @ + 1]
         IN  IF s1.report.votesFor >= VERIFICATION_THRESHOLD
             THEN _changeStatus(s1, "Closed") ELSE s1
    ELSE LET s1 == [st EXCEPT !.report.votesAgainst = @ + 1]
         IN  IF s1.report.votesAgainst >= REOPEN_THRESHOLD
             THEN LET s2 == [s1 EXCEPT !.report.reopenCount = @ + 1]
                  IN  IF s2.report.reopenCount >= REOPEN_LIMIT
                      THEN _changeStatus(s2, "Closed")
                      ELSE _changeStatus(s2, "Open")
             ELSE s1

_processVerificationVote(st, voteDirection) ==
    IF voteDirection
    THEN LET s1 == [st EXCEPT !.report.votesFor = @ + 1]
         IN  IF s1.report.votesFor >= VERIFICATION_THRESHOLD
             THEN _changeStatus(s1, "Closed") ELSE s1
    ELSE LET s1 == [st EXCEPT !.report.votesAgainst = @ + 1]
         IN  IF s1.report.votesAgainst >= REOPEN_THRESHOLD
             THEN LET s2 == [s1 EXCEPT !.report.reopenCount = @ + 1]
                  IN  IF s2.report.reopenCount >= REOPEN_LIMIT
                      THEN _changeStatus(s2, "Closed")
                      ELSE _changeStatus(s2, "Reopened")
             ELSE s1

\* The status voteOnReport requires for a phase.
PhaseStatus(phase) ==
    CASE phase = "Validation" -> "Pending_Validation"
      [] phase = "Rejection_Review" -> "Pending_Rejection_Review"
      [] phase = "Verification" -> "Pending_Verification"

PhaseRevert(phase) ==
    CASE phase = "Validation" -> NotInValidation
      [] phase = "Rejection_Review" -> NotInRejectionReview
      [] phase = "Verification" -> NotInVerification

\* The dispatch of voteOnReport on the phase.
ProcessVote(st, phase, voteDirection) ==
    CASE phase = "Validation" -> _processValidationVote(st, voteDirection)
      [] phase = "Rejection_Review" -> _processRejectionReviewVote(st, voteDirection)
      [] phase = "Verification" -> _processVerificationVote(st, voteDirection)

----------------------------------------------------------------------------
(* Transactions *)

\* A reverted transaction: storage as before, nothing emitted.
Revert(function, reason) ==
    /\ lastOp' = Op(function, reason)
    /\ events' = << >>
    /\ UNCHANGED <<now, storage>>

\* Variant: the submission nullifier is not looked up.
CreateReportResult_NoDuplicateCheck(caller, submissionNullifier) ==
    IF ~HasRole(RELAYER_ROLE, caller) THEN AccessDenied ELSE Ok

\* The checks of createReport in the order the code makes them.
CreateReportResult(caller, submissionNullifier) ==
    IF ~HasRole(RELAYER_ROLE, caller) THEN AccessDenied
    ELSE IF submissionNullifier \in submissionNullifiers THEN DuplicateSubmission
    ELSE Ok

\* Variant: the new report is stored over the last one created.
createReport_OverwritesLast(caller, ipfsCID, submissionNullifier) ==
    LET result == CreateReportResult(caller, submissionNullifier)
        reportId == IF nextReportId = 0 THEN 0 ELSE nextReportId - 1
    IN  IF result # Ok
        THEN Revert("createReport", result)
        ELSE /\ submissionNullifiers' = submissionNullifiers \cup { submissionNullifier }
             /\ nextReportId' = nextReportId + 1
             /\ reports' = [ i \in DOMAIN reports \cup { reportId } |->
                    IF i = reportId
                    THEN [ id |-> reportId, ipfsCID |-> ipfsCID,
                           submissionNullifier |-> submissionNullifier,
                           status |-> "Pending_Validation", createdAt |-> now,
                           actionedBy |-> AUTOMATIC_TRANSITION,
                           votesFor |-> 0, votesAgainst |-> 0, reopenCount |-> 0,
                           expiresAt |-> now + EXPIRATION_TIMEOUT ]
                    ELSE reports[i] ]
             /\ events' = << ReportCreated(reportId, ipfsCID, now) >>
             /\ lastOp' = Op("createReport", Ok)
             /\ UNCHANGED <<now, reportVotes>>

\* Variant: the submission nullifier is stored in the report but not marked
\* as consumed.
createReport_NullifierNotConsumed(caller, ipfsCID, submissionNullifier) ==
    LET result == CreateReportResult(caller, submissionNullifier)
        reportId == nextReportId
    IN  IF result # Ok
        THEN Revert("createReport", result)
        ELSE /\ nextReportId' = nextReportId + 1
             /\ reports' = [ i \in DOMAIN reports \cup { reportId } |->
                    IF i = reportId
                    THEN [ id |-> reportId, ipfsCID |-> ipfsCID,
                           submissionNullifier |-> submissionNullifier,
                           status |-> "Pending_Validation", createdAt |-> now,
                           actionedBy |-> AUTOMATIC_TRANSITION,
                           votesFor |-> 0, votesAgainst |-> 0, reopenCount |-> 0,
                           expiresAt |-> now + EXPIRATION_TIMEOUT ]
                    ELSE reports[i] ]
             /\ events' = << ReportCreated(reportId, ipfsCID, now) >>
             /\ lastOp' = Op("createReport", Ok)
             /\ UNCHANGED <<now, reportVotes, submissionNullifiers>>

createReport(caller, ipfsCID, submissionNullifier) ==
    LET result == CreateReportResult(caller, submissionNullifier)
        reportId == nextReportId
    IN  IF result # Ok
        THEN Revert("createReport", result)
        ELSE /\ submissionNullifiers' = submissionNullifiers \cup { submissionNullifier }
             /\ nextReportId' = nextReportId + 1
             /\ reports' = [ i \in DOMAIN reports \cup { reportId } |->
                    IF i = reportId
                    THEN [ id |-> reportId, ipfsCID |-> ipfsCID,
                           submissionNullifier |-> submissionNullifier,
                           status |-> "Pending_Validation", createdAt |-> now,
                           actionedBy |-> AUTOMATIC_TRANSITION,
                           votesFor |-> 0, votesAgainst |-> 0, reopenCount |-> 0,
                           expiresAt |-> now + EXPIRATION_TIMEOUT ]
                    ELSE reports[i] ]
             /\ events' = << ReportCreated(reportId, ipfsCID, now) >>
             /\ lastOp' = Op("createReport", Ok)
             /\ UNCHANGED <<now, reportVotes>>

\* Variant: voteOnReport without the onlyRole modifier.
VoteOnReportResult_NoRoleCheck(caller, reportId, votingNullifier, phase) ==
    IF <<reportId, phase, votingNullifier>> \in reportVotes THEN DuplicateVote
    ELSE IF ReportAt(reportId).createdAt = 0 THEN ReportNotFound
    ELSE IF ~(now <= ReportAt(reportId).expiresAt) THEN ReportExpired
    ELSE IF ReportAt(reportId).status # PhaseStatus(phase) THEN PhaseRevert(phase)
    ELSE Ok

\* Variant: a voting nullifier is looked up whatever the report and phase it
\* was registered under.
VoteOnReportResult_NullifierGlobal(caller, reportId, votingNullifier, phase) ==
    IF ~HasRole(RELAYER_ROLE, caller) THEN AccessDenied
    ELSE IF \E t \in reportVotes : t[3] = votingNullifier THEN DuplicateVote
    ELSE IF ReportAt(reportId).createdAt = 0 THEN ReportNotFound
    ELSE IF ~(now <= ReportAt(reportId).expiresAt) THEN ReportExpired
    ELSE IF ReportAt(reportId).status # PhaseStatus(phase) THEN PhaseRevert(phase)
    ELSE Ok

\* Variant: the existence of the report is not checked.
VoteOnReportResult_NoExistenceCheck(caller, reportId, votingNullifier, phase) ==
    IF ~HasRole(RELAYER_ROLE, caller) THEN AccessDenied
    ELSE IF <<reportId, phase, votingNullifier>> \in reportVotes THEN DuplicateVote
    ELSE IF ~(now <= ReportAt(reportId).expiresAt) THEN ReportExpired
    ELSE IF ReportAt(reportId).status # PhaseStatus(phase) THEN PhaseRevert(phase)
    ELSE Ok

\* Variant: the status of the report is not compared with the phase.
VoteOnReportResult_PhaseUnchecked(caller, reportId, votingNullifier, phase) ==
    IF ~HasRole(RELAYER_ROLE, caller) THEN AccessDenied
    ELSE IF <<reportId, phase, votingNullifier>> \in reportVotes THEN DuplicateVote
    ELSE IF ReportAt(reportId).createdAt = 0 THEN ReportNotFound
    ELSE IF ~(now <= ReportAt(reportId).expiresAt) THEN ReportExpired
    ELSE Ok

\* Variant: the voting window excludes the expiry instant.
VoteOnReportResult_ExpiryExclusive(caller, reportId, votingNullifier, phase) ==
    IF ~HasRole(RELAYER_ROLE, caller) THEN AccessDenied
    ELSE IF <<reportId, phase, votingNullifier>> \in reportVotes THEN DuplicateVote
    ELSE IF ReportAt(reportId).createdAt = 0 THEN ReportNotFound
    ELSE IF ~(now < ReportAt(reportId).expiresAt) THEN ReportExpired
    ELSE IF ReportAt(reportId).status # PhaseStatus(phase) THEN PhaseRevert(phase)
    ELSE Ok

\* The checks of voteOnReport in the order the code makes them.
VoteOnReportResult(caller, reportId, votingNullifier, phase) ==
    IF ~HasRole(RELAYER_ROLE, caller) THEN AccessDenied
    ELSE IF <<reportId, phase, votingNullifier>> \in reportVotes THEN DuplicateVote
    ELSE IF ReportAt(reportId).createdAt = 0 THEN ReportNotFound
    ELSE IF ~(now <= ReportAt(reportId).expiresAt) THEN ReportExpired
    ELSE IF ReportAt(reportId).status # PhaseStatus(phase) THEN PhaseRevert(phase)
    ELSE Ok

\* Variant: the nullifier is registered before the checks, and a failed check
\* returns without undoing it.
voteOnReport_RegistersBeforeChecks(caller, reportId, voteDirection, votingNullifier, phase) ==
    LET result == VoteOnReportResult(caller, reportId, votingNullifier, phase)
        out == ProcessVote([report |-> ReportAt(reportId), emitted |-> << >>],
                           phase, voteDirection)
    IN  IF result # Ok
        THEN /\ lastOp' = Op("voteOnReport", result)
             /\ events' = << >>
             /\ reportVotes' =
                   IF result \in WrongPhaseForStatus
                   THEN reportVotes \cup { <<reportId, phase, votingNullifier>> }
                   ELSE reportVotes
             /\ UNCHANGED <<now, nextReportId, reports, submissionNullifiers>>
        ELSE /\ reports' = [reports EXCEPT ![reportId] = out.report]
             /\ reportVotes' = reportVotes \cup { <<reportId, phase, votingNullifier>> }
             /\ events' = Append(out.emitted,
                                 VoteCast(reportId, voteDirection, out.report.status))
             /\ lastOp' = Op("voteOnReport", Ok)
             /\ UNCHANGED <<now, nextReportId, submissionNullifiers>>

\* Variant: VoteCast carries the status read before the vote was processed.
voteOnReport_CastsOldStatus(caller, reportId, voteDirection, votingNullifier, phase) ==
    LET result == VoteOnReportResult(caller, reportId, votingNullifier, phase)
        out == ProcessVote([report |-> ReportAt(reportId), emitted |-> << >>],
                           phase, voteDirection)
    IN  IF result # Ok
        THEN Revert("voteOnReport", result)
        ELSE /\ reports' = [reports EXCEPT ![reportId] = out.report]
             /\ reportVotes' = reportVotes \cup { <<reportId, phase, votingNullifier>> }
             /\ events' = Append(out.emitted,
                                 VoteCast(reportId, voteDirection,
                                          ReportAt(reportId).status))
             /\ lastOp' = Op("voteOnReport", Ok)
             /\ UNCHANGED <<now, nextReportId, submissionNullifiers>>

\* Variant: an accepted vote is tallied but its nullifier is not registered.
voteOnReport_TalliesUnregistered(caller, reportId, voteDirection, votingNullifier, phase) ==
    LET result == VoteOnReportResult(caller, reportId, votingNullifier, phase)
        out == ProcessVote([report |-> ReportAt(reportId), emitted |-> << >>],
                           phase, voteDirection)
    IN  IF result # Ok
        THEN Revert("voteOnReport", result)
        ELSE /\ reports' = [reports EXCEPT ![reportId] = out.report]
             /\ events' = Append(out.emitted,
                                 VoteCast(reportId, voteDirection, out.report.status))
             /\ lastOp' = Op("voteOnReport", Ok)
             /\ UNCHANGED <<now, nextReportId, submissionNullifiers, reportVotes>>

voteOnReport(caller, reportId, voteDirection, votingNullifier, phase) ==
    LET result == VoteOnReportResult(caller, reportId, votingNullifier, phase)
        out == ProcessVote([report |-> ReportAt(reportId), emitted |-> << >>],
                           phase, voteDirection)
    IN  IF result # Ok
        THEN Revert("voteOnReport", result)
        ELSE /\ reports' = [reports EXCEPT ![reportId] = out.report]
             /\ reportVotes' = reportVotes \cup { <<reportId, phase, votingNullifier>> }
             /\ events' = Append(out.emitted,
                                 VoteCast(reportId, voteDirection, out.report.status))
             /\ lastOp' = Op("voteOnReport", Ok)
             /\ UNCHANGED <<now, nextReportId, submissionNullifiers>>

\* Variant: a closed report may be marked solved again.
MarkAsSolvedResult_AlsoClosed(caller, reportId) ==
    IF ~HasRole(AUTHORITY_ROLE, caller) THEN AccessDenied
    ELSE IF ~(ReportAt(reportId).status \in { "Open", "Reopened", "Closed" })
         THEN InvalidStateSolve
    ELSE Ok

\* Variant: markAsSolved honours the voting window like a vote does.
MarkAsSolvedResult_ChecksExpiry(caller, reportId) ==
    IF ~HasRole(AUTHORITY_ROLE, caller) THEN AccessDenied
    ELSE IF ~(ReportAt(reportId).status \in { "Open", "Reopened" }) THEN InvalidStateSolve
    ELSE IF ~(now <= ReportAt(reportId).expiresAt) THEN ReportExpired
    ELSE Ok

MarkAsSolvedResult(caller, reportId) ==
    IF ~HasRole(AUTHORITY_ROLE, caller) THEN AccessDenied
    ELSE IF ~(ReportAt(reportId).status \in { "Open", "Reopened" }) THEN InvalidStateSolve
    ELSE Ok

\* Variant: markAsSolved resets reopenCount together with the vote counters.
MarkedSolved_ResetsReopenCount(report, caller) ==
    [report EXCEPT !.status = "Pending_Verification", !.actionedBy = caller,
                   !.votesFor = 0, !.votesAgainst = 0, !.reopenCount = 0]

\* Variant: markAsSolved leaves the tallies of the previous phase in place.
MarkedSolved_KeepsCounters(report, caller) ==
    [report EXCEPT !.status = "Pending_Verification", !.actionedBy = caller]

\* Variant: markAsSolved opens a fresh voting window.
MarkedSolved_ExtendsWindow(report, caller) ==
    [report EXCEPT !.status = "Pending_Verification", !.actionedBy = caller,
                   !.votesFor = 0, !.votesAgainst = 0,
                   !.expiresAt = now + EXPIRATION_TIMEOUT]

\* The report as markAsSolved leaves it.
MarkedSolved(report, caller) ==
    [report EXCEPT !.status = "Pending_Verification", !.actionedBy = caller,
                   !.votesFor = 0, !.votesAgainst = 0]

\* Variant: entering a new verification round forgets who voted in the last.
markAsSolved_ForgetsVotes(caller, reportId) ==
    LET result == MarkAsSolvedResult(caller, reportId)
        report == ReportAt(reportId)
    IN  IF result # Ok
        THEN Revert("markAsSolved", result)
        ELSE /\ reports' = [reports EXCEPT ![reportId] = MarkedSolved(report, caller)]
             /\ reportVotes' = { t \in reportVotes :
                                  ~(t[1] = reportId /\ t[2] = "Verification") }
             /\ events' = << StatusChanged(reportId, report.status,
                                           "Pending_Verification", caller) >>
             /\ lastOp' = Op("markAsSolved", Ok)
             /\ UNCHANGED <<now, nextReportId, submissionNullifiers>>

\* Variant: markAsSolved resets the tallies of every report, not of its own.
markAsSolved_ResetsEveryTally(caller, reportId) ==
    LET result == MarkAsSolvedResult(caller, reportId)
        report == ReportAt(reportId)
    IN  IF result # Ok
        THEN Revert("markAsSolved", result)
        ELSE /\ reports' = [j \in DOMAIN reports |->
                              IF j = reportId
                              THEN MarkedSolved(report, caller)
                              ELSE [reports[j] EXCEPT !.votesFor = 0, !.votesAgainst = 0]]
             /\ events' = << StatusChanged(reportId, report.status,
                                           "Pending_Verification", caller) >>
             /\ lastOp' = Op("markAsSolved", Ok)
             /\ UNCHANGED <<now, nextReportId, submissionNullifiers, reportVotes>>

markAsSolved(caller, reportId) ==
    LET result == MarkAsSolvedResult(caller, reportId)
        report == ReportAt(reportId)
    IN  IF result # Ok
        THEN Revert("markAsSolved", result)
        ELSE /\ reports' = [reports EXCEPT ![reportId] = MarkedSolved(report, caller)]
             /\ events' = << StatusChanged(reportId, report.status,
                                           "Pending_Verification", caller) >>
             /\ lastOp' = Op("markAsSolved", Ok)
             /\ UNCHANGED <<now, nextReportId, submissionNullifiers, reportVotes>>

\* Variant: rejectIssue accepts the source states of markAsSolved.
RejectIssueResult_AlsoReopened(caller, reportId) ==
    IF ~HasRole(AUTHORITY_ROLE, caller) THEN AccessDenied
    ELSE IF ~(ReportAt(reportId).status \in { "Open", "Reopened" }) THEN InvalidStateReject
    ELSE Ok

RejectIssueResult(caller, reportId) ==
    IF ~HasRole(AUTHORITY_ROLE, caller) THEN AccessDenied
    ELSE IF ReportAt(reportId).status # "Open" THEN InvalidStateReject
    ELSE Ok

\* Variant: rejectIssue does not record who rejected.
rejectIssue_ForgetsActor(caller, reportId) ==
    LET result == RejectIssueResult(caller, reportId)
        report == ReportAt(reportId)
    IN  IF result # Ok
        THEN Revert("rejectIssue", result)
        ELSE /\ reports' = [reports EXCEPT ![reportId] =
                    [report EXCEPT !.status = "Pending_Rejection_Review",
                                   !.votesFor = 0, !.votesAgainst = 0]]
             /\ events' = << StatusChanged(reportId, report.status,
                                           "Pending_Rejection_Review", caller) >>
             /\ lastOp' = Op("rejectIssue", Ok)
             /\ UNCHANGED <<now, nextReportId, submissionNullifiers, reportVotes>>

\* Variant: rejectIssue leaves the tallies of the previous phase in place.
rejectIssue_KeepsCounters(caller, reportId) ==
    LET result == RejectIssueResult(caller, reportId)
        report == ReportAt(reportId)
    IN  IF result # Ok
        THEN Revert("rejectIssue", result)
        ELSE /\ reports' = [reports EXCEPT ![reportId] =
                    [report EXCEPT !.status = "Pending_Rejection_Review",
                                   !.actionedBy = caller]]
             /\ events' = << StatusChanged(reportId, report.status,
                                           "Pending_Rejection_Review", caller) >>
             /\ lastOp' = Op("rejectIssue", Ok)
             /\ UNCHANGED <<now, nextReportId, submissionNullifiers, reportVotes>>

rejectIssue(caller, reportId) ==
    LET result == RejectIssueResult(caller, reportId)
        report == ReportAt(reportId)
    IN  IF result # Ok
        THEN Revert("rejectIssue", result)
        ELSE /\ reports' = [reports EXCEPT ![reportId] =
                    [report EXCEPT !.status = "Pending_Rejection_Review",
                                   !.actionedBy = caller,
                                   !.votesFor = 0, !.votesAgainst = 0]]
             /\ events' = << StatusChanged(reportId, report.status,
                                           "Pending_Rejection_Review", caller) >>
             /\ lastOp' = Op("rejectIssue", Ok)
             /\ UNCHANGED <<now, nextReportId, submissionNullifiers, reportVotes>>

\* Variant: a sweep closes the reports whose voting window has passed.
Tick_ClosesExpired ==
    /\ \E i \in DOMAIN reports, d \in {0, 1} :
          /\ now < reports[i].expiresAt + d
          /\ now' = reports[i].expiresAt + d
    /\ reports' = [ i \in DOMAIN reports |->
                      IF now' > reports[i].expiresAt
                      THEN [reports[i] EXCEPT !.status = "Closed"]
                      ELSE reports[i] ]
    /\ lastOp' = NoOp
    /\ events' = << >>
    /\ UNCHANGED <<nextReportId, submissionNullifiers, reportVotes>>

\* Block time advances with no transaction.  The only comparison the contract
\* makes is now <= expiresAt, so time moves to the expiry instant of a report
\* or to the second after it.
Tick ==
    /\ \E i \in DOMAIN reports, d \in {0, 1} :
          /\ now < reports[i].expiresAt + d
          /\ now' = reports[i].expiresAt + d
    /\ lastOp' = NoOp
    /\ events' = << >>
    /\ UNCHANGED storage

----------------------------------------------------------------------------
(* The off-chain submission pipeline: ReportingController.submitReport of    *)
(* the relayer backend, and submitReportThroughPipeline of the contract's    *)
(* test suite.  A description is a sequence of lower-case words.             *)

DescriptionList ==
    << <<"pothole", "on", "main", "street">>, <<"free", "spam", "offer">>,
       <<"abusive", "rant">>, <<"hi">> >>

Descriptions == { DescriptionList[k] : k \in 1..Len(DescriptionList) }

\* A hash of the description: an injective numbering of the descriptions,
\* apart from the nullifiers the backend is handed.
Digest(description) ==
    100 + (CHOOSE k \in 1..Len(DescriptionList) : DescriptionList[k] = description)

RECURSIVE Text(_)
Text(description) ==
    IF description = << >> THEN ""
    ELSE Head(description) \o (IF Len(description) > 1 THEN " " ELSE "")
            \o Text(Tail(description))

\* description.length: the words and the spaces between them.
RECURSIVE Length(_)
Length(description) ==
    IF description = << >> THEN 0
    ELSE Len(Head(description)) + (IF Len(description) > 1 THEN 1 ELSE 0)
            + Length(Tail(description))

\* description.toLowerCase().includes(word)
Includes(description, word) == \E k \in 1..Len(description) : description[k] = word

\* mockAiOracleService.moderateContent(description).isApproved
moderateContent(description) ==
    IF Includes(description, "spam") \/ Length(description) < 5 THEN FALSE
    ELSE IF Includes(description, "abusive") THEN FALSE
    ELSE TRUE

\* mockIpfsService.uploadEvidence: a CID derived from the content.
uploadEvidence(description) == "ipfs://QmMock/" \o Text(description)

\* ethers.id(description), the nullifier the test pipeline submits.
NullifierOf(description) == Digest(description)

\* The constant the controller uses in place of an upload.
MockCID == "ipfs://QmMockHashForNow12345"

\* createReportDto.mockProof values: one with the prefix "zkp_valid_proof_",
\* one without.
Proofs == { "zkp_valid_proof_7f3a", "forged_proof" }
\* createReportDto.mockProof.startsWith('zkp_valid_proof_')
ValidPrefix == "zkp_valid_proof_"
StartsWithValidPrefix(mockProof) ==
    /\ Len(mockProof) >= Len(ValidPrefix)
    /\ SubSeq(mockProof, 1, Len(ValidPrefix)) = ValidPrefix

BadRequestImage == "400 Visual evidence (image) is required"
BadRequestProof == "400 Invalid citizen identity proof"
InternalError == "500 Failed to record report on-chain."
Recorded == "201 Report successfully validated and recorded on the blockchain."
ReturnedNull == "null"
ReturnedId == "reportId"
Thrown == "reverted"

Submission(by, pc, description, nullifierHash, ipfsCID, stages, response) ==
    [ by |-> by, pc |-> pc, description |-> description,
      nullifierHash |-> nullifierHash, ipfsCID |-> ipfsCID, stages |-> stages,
      response |-> response ]

NoSubmission == Submission("none", "idle", << >>, 0, "", << >>, "")

\* The contract is not called.
OffChain == UNCHANGED <<now, storage, lastOp, events>>

\* Variant: the controller does not look at the proof.
submitReport_ProofUnchecked(description, mockProof, nullifierHash, image) ==
    /\ pipeline.pc = "idle"
    /\ OffChain
    /\ pipeline' =
          IF ~image
          THEN Submission("controller", "idle", description, nullifierHash, "",
                          << >>, BadRequestImage)
          ELSE Submission("controller", "awaitingChain", description, nullifierHash,
                          MockCID, << "ipfs", "moderation" >>, "")

\* ReportingController.submitReport up to the await of the chain call: the
\* checks of step 0, step 1 (storage), step 2 (moderation), and the request
\* handed to BlockchainService.
submitReport(description, mockProof, nullifierHash, image) ==
    /\ pipeline.pc = "idle"
    /\ OffChain
    /\ pipeline' =
          IF ~image
          THEN Submission("controller", "idle", description, nullifierHash, "",
                          << >>, BadRequestImage)
          ELSE IF ~StartsWithValidPrefix(mockProof)
          THEN Submission("controller", "idle", description, nullifierHash, "",
                          << >>, BadRequestProof)
          ELSE Submission("controller", "awaitingChain", description, nullifierHash,
                          MockCID, << "ipfs", "moderation" >>, "")

\* BlockchainService.submitReportToChain: the relayer wallet's createReport
\* transaction is mined, and the controller answers.
submitReportToChain ==
    /\ pipeline.pc = "awaitingChain"
    /\ createReport(Relayer, pipeline.ipfsCID, pipeline.nullifierHash)
    /\ pipeline' = [pipeline EXCEPT
                      !.pc = "idle",
                      !.stages = Append(@, "chain"),
                      !.response = IF lastOp'.result = Ok THEN Recorded
                                   ELSE InternalError]

\* submitReportThroughPipeline of the test suite, for content expected to be
\* approved or rejected as the moderation decides.
submitReportThroughPipeline(description) ==
    /\ pipeline.pc = "idle"
    /\ IF ~moderateContent(description)
       THEN /\ OffChain
            /\ pipeline' = Submission("test", "idle", description,
                                      NullifierOf(description), "",
                                      << "moderation" >>, ReturnedNull)
       ELSE /\ createReport(Relayer, uploadEvidence(description),
                            NullifierOf(description))
            /\ pipeline' = Submission("test", "idle", description,
                                      NullifierOf(description),
                                      uploadEvidence(description),
                                      << "moderation", "ipfs", "chain" >>,
                                      IF lastOp'.result = Ok THEN ReturnedId
                                      ELSE Thrown)

----------------------------------------------------------------------------
(* The identity simulator (zkp-govid-simulator) *)

\* The mock citizen registry.
mockCitizens ==
    [ citizenId \in { "citizen_001", "citizen_002" } |->
         IF citizenId = "citizen_001"
         THEN [ name |-> "Alice", password |-> "password123" ]
         ELSE [ name |-> "Bob", password |-> "password123" ] ]

verifyCitizen(citizenId, password) ==
    /\ citizenId \in DOMAIN mockCitizens
    /\ mockCitizens[citizenId].password = password

\* Request fields tried: the registered citizens and an unknown one, the right
\* password and a wrong one, two report contexts; "" is a missing field.
CitizenList == << "citizen_001", "citizen_002", "citizen_999" >>
ContextList == << "Pothole_MainSt", "Streetlight_5thAve" >>
CitizenIds == { CitizenList[k] : k \in 1..Len(CitizenList) }
Passwords == { "password123", "letmein" }
ReportContexts == { ContextList[k] : k \in 1..Len(ContextList) }

\* crypto.randomBytes(8).toString('hex'): two of the 2^64 outcomes.
RandomList == << "7f3a9c01d2e4b586", "00ff00ff00ff00ff" >>
RandomHex == { RandomList[k] : k \in 1..Len(RandomList) }

generateMockProof(random) == "zkp_valid_proof_" \o random

\* The strings the model hashes: citizen id, context and an optional suffix,
\* concatenated without a separator.
Sha256Inputs ==
    LET suffixes == << "" >> \o RandomList
        nx == Len(ContextList)
        ns == Len(suffixes)
    IN  [ k \in 1..(Len(CitizenList) * nx * ns) |->
             CitizenList[((k - 1) \div (nx * ns)) + 1]
                \o ContextList[(((k - 1) \div ns) % nx) + 1]
                \o suffixes[((k - 1) % ns) + 1] ]

\* '0x' + SHA-256 of the string: a numbering of the strings hashed that gives
\* equal strings equal digests and different strings different ones, apart
\* from the nullifiers of the other sections.
sha256(string) ==
    200 + (CHOOSE k \in 1..Len(Sha256Inputs) : Sha256Inputs[k] = string)

generateNullifierHash(citizenId, reportContext) == sha256(citizenId \o reportContext)

Undefined == "undefined"
NoNullifier == 0
InvalidCredentials == "Invalid citizen credentials"
MissingFields == "Missing required fields: citizenId, password, reportContext"

AuthResult(success, error, mockProof, nullifierHash) ==
    [ success |-> success, error |-> error, mockProof |-> mockProof,
      nullifierHash |-> nullifierHash ]

\* Variant: the nullifier is derived from the fresh randomness of the proof
\* as well.
authenticateAndGenerateProof_NullifierFromProof(citizenId, password, reportContext, random) ==
    IF ~verifyCitizen(citizenId, password)
    THEN AuthResult(FALSE, InvalidCredentials, Undefined, NoNullifier)
    ELSE AuthResult(TRUE, Undefined, generateMockProof(random),
                    sha256(citizenId \o reportContext \o random))

\* authenticateAndGenerateProof; random is the outcome of crypto.randomBytes.
authenticateAndGenerateProof(citizenId, password, reportContext, random) ==
    IF ~verifyCitizen(citizenId, password)
    THEN AuthResult(FALSE, InvalidCredentials, Undefined, NoNullifier)
    ELSE AuthResult(TRUE, Undefined, generateMockProof(random),
                    generateNullifierHash(citizenId, reportContext))

AuthRequest(citizenId, password, reportContext) ==
    [ citizenId |-> citizenId, password |-> password, reportContext |-> reportContext ]

AuthResponse(request, status, error, mockProof, nullifierHash) ==
    [ request |-> request, status |-> status, error |-> error,
      mockProof |-> mockProof, nullifierHash |-> nullifierHash ]

NoAuthentication == AuthResponse(AuthRequest("", "", ""), 0, Undefined, Undefined, NoNullifier)

\* POST /api/govid/authenticate
authenticate(citizenId, password, reportContext, random) ==
    LET request == AuthRequest(citizenId, password, reportContext)
        result == authenticateAndGenerateProof(citizenId, password, reportContext, random)
    IN  /\ authentication' =
              IF citizenId = "" \/ password = "" \/ reportContext = ""
              THEN AuthResponse(request, 400, MissingFields, Undefined, NoNullifier)
              ELSE IF ~result.success
              THEN AuthResponse(request, 401, result.error, Undefined, NoNullifier)
              ELSE AuthResponse(request, 200, Undefined, result.mockProof,
                                result.nullifierHash)
        /\ OffChain
        /\ UNCHANGED pipeline

----------------------------------------------------------------------------
(* Specifications *)

Init ==
    /\ now = 1
    /\ nextReportId = 0
    /\ reports = << >>
    /\ submissionNullifiers = {}
    /\ reportVotes = {}
    /\ lastOp = NoOp
    /\ events = << >>
    /\ pipeline = NoSubmission
    /\ authentication = NoAuthentication

CreateStep(maxReports, callers, cids) ==
    \E caller \in callers, cid \in cids, n \in SubmissionInputs(maxReports) :
       createReport(caller, cid, n)

VoteStep(maxVotes, callers) ==
    /\ Cardinality(reportVotes) < maxVotes
    /\ \E caller \in callers, id \in IdInputs, dir \in BOOLEAN, phase \in VotingPhase :
          \E n \in VoteInputs(id, phase, MaxNull) :
             voteOnReport(caller, id, dir, n, phase)

SolveStep(callers) == \E caller \in callers, id \in IdInputs : markAsSolved(caller, id)

RejectStep(callers) == \E caller \in callers, id \in IdInputs : rejectIssue(caller, id)

\* One report through its whole life: every voting round the nullifier supply
\* allows, authority actions, and expiry.
Next ==
    \/ CreateStep(1, Callers, OneCID) /\ UNCHANGED <<pipeline, authentication>>
    \/ VoteStep(3 * MaxNull, Callers) /\ UNCHANGED <<pipeline, authentication>>
    \/ SolveStep(Callers) /\ UNCHANGED <<pipeline, authentication>>
    \/ RejectStep(Callers) /\ UNCHANGED <<pipeline, authentication>>
    \/ Tick /\ UNCHANGED <<pipeline, authentication>>

Spec == Init /\ [][Next]_vars

\* Several reports side by side, with a cap on the votes cast in total.
NextMulti ==
    \/ CreateStep(MaxReports, Callers, CIDs) /\ UNCHANGED <<pipeline, authentication>>
    \/ VoteStep(MaxVotes, Callers) /\ UNCHANGED <<pipeline, authentication>>
    \/ SolveStep(Callers) /\ UNCHANGED <<pipeline, authentication>>
    \/ RejectStep(Callers) /\ UNCHANGED <<pipeline, authentication>>

SpecMulti == Init /\ [][NextMulti]_vars

\* The block timestamps of the first transaction: a block's timestamp exceeds
\* its parent's, so every block after genesis has a timestamp of at least 1.
ClockStarts == 1..MaxStart

InitClock ==
    /\ now \in ClockStarts
    /\ nextReportId = 0
    /\ reports = << >>
    /\ submissionNullifiers = {}
    /\ reportVotes = {}
    /\ lastOp = NoOp
    /\ events = << >>
    /\ pipeline = NoSubmission
    /\ authentication = NoAuthentication

\* Reports created at different block times, by the role holders alone.
NextClock ==
    \/ CreateStep(MaxReports, { Relayer }, OneCID) /\ UNCHANGED <<pipeline, authentication>>
    \/ VoteStep(MaxVotes - 2, { Relayer }) /\ UNCHANGED <<pipeline, authentication>>
    \/ SolveStep({ GovNode }) /\ UNCHANGED <<pipeline, authentication>>
    \/ RejectStep({ GovNode }) /\ UNCHANGED <<pipeline, authentication>>
    \/ Tick /\ UNCHANGED <<pipeline, authentication>>

SpecClock == InitClock /\ [][NextClock]_vars

\* The reject / appeal loop of one report: the relayer casts validation votes
\* and appeal votes (rejection-review votes against the authority), three fresh
\* nullifiers to each appeal, and an authority rejects or marks as solved.
AppealVoteStep ==
    \E id \in IdInputs, dir \in BOOLEAN, phase \in { "Validation", "Rejection_Review" } :
       /\ phase = "Rejection_Review" => ~dir
       /\ \E n \in VoteInputs(id, phase, MaxAppealNull) :
             voteOnReport(Relayer, id, dir, n, phase)

NextAppeal ==
    \/ CreateStep(1, { Relayer }, OneCID) /\ UNCHANGED <<pipeline, authentication>>
    \/ AppealVoteStep /\ UNCHANGED <<pipeline, authentication>>
    \/ SolveStep({ GovNode }) /\ UNCHANGED <<pipeline, authentication>>
    \/ RejectStep({ GovNode }) /\ UNCHANGED <<pipeline, authentication>>

SpecAppeal == Init /\ [][NextAppeal]_vars

\* A new report may be asked for while fewer than MaxReports exist; a consumed
\* nullifier may always be tried again.
MaySubmit(nullifierHash) ==
    nextReportId < MaxReports \/ nullifierHash \in submissionNullifiers

ControllerStep ==
    \E description \in Descriptions, mockProof \in Proofs, image \in BOOLEAN :
       \E nullifierHash \in SubmissionInputs(MaxReports) :
          submitReport(description, mockProof, nullifierHash, image)

ChainStep == submitReportToChain

TestPipelineStep ==
    \E description \in Descriptions :
       /\ MaySubmit(NullifierOf(description))
       /\ submitReportThroughPipeline(description)

\* Submissions through the backend and through the test pipeline.
NextPipeline ==
    \/ ControllerStep /\ UNCHANGED authentication
    \/ ChainStep /\ UNCHANGED authentication
    \/ TestPipelineStep /\ UNCHANGED authentication

SpecPipeline == Init /\ [][NextPipeline]_vars

\* A citizen authenticates with the simulator and hands the proof and the
\* nullifier it was given to the backend, with an image attached.
AuthenticateStep ==
    \E citizenId \in CitizenIds, password \in Passwords,
       reportContext \in ReportContexts \cup { "" }, random \in RandomHex :
       authenticate(citizenId, password, reportContext, random)

ProofSubmitStep ==
    /\ authentication.status = 200
    /\ MaySubmit(authentication.nullifierHash)
    /\ submitReport(DescriptionList[1], authentication.mockProof,
                    authentication.nullifierHash, TRUE)
    /\ UNCHANGED authentication

NextIdentity ==
    \/ AuthenticateStep
    \/ ProofSubmitStep
    \/ ChainStep /\ UNCHANGED authentication

SpecIdentity == Init /\ [][NextIdentity]_vars

----------------------------------------------------------------------------
(* Shorthands used by the properties below *)

Existing == DOMAIN reports

\* The last transaction was an accepted call of the function.
Accepted(function) == lastOp = Op(function, Ok)

\* The triple a successful vote adds to the vote registry.
NewVotes == reportVotes' \ reportVotes

----------------------------------------------------------------------------
(* C1: the status of every report is one of the seven lifecycle values, and  *)
(* a report's status changes only along the nine edges of the lifecycle,     *)
(* each by the operation that owns it: a Validation vote for                 *)
(* Pending_Validation -> Open | Community_Rejected, markAsSolved for         *)
(* Open | Reopened -> Pending_Verification, rejectIssue for                  *)
(* Open -> Pending_Rejection_Review, a Verification vote for                 *)
(* Pending_Verification -> Closed | Reopened, a Rejection_Review vote for    *)
(* Pending_Rejection_Review -> Closed | Open.                                *)

LifecycleEdges ==
    { <<"Pending_Validation", "Open", "voteOnReport", "Validation">>,
      <<"Pending_Validation", "Community_Rejected", "voteOnReport", "Validation">>,
      <<"Open", "Pending_Verification", "markAsSolved", "none">>,
      <<"Reopened", "Pending_Verification", "markAsSolved", "none">>,
      <<"Open", "Pending_Rejection_Review", "rejectIssue", "none">>,
      <<"Pending_Verification", "Closed", "voteOnReport", "Verification">>,
      <<"Pending_Verification", "Reopened", "voteOnReport", "Verification">>,
      <<"Pending_Rejection_Review", "Closed", "voteOnReport", "Rejection_Review">>,
      <<"Pending_Rejection_Review", "Open", "voteOnReport", "Rejection_Review">> }

\* The phase of the vote a step registered for report i, "none" without one.
VotedPhase(i) ==
    IF \E t \in NewVotes : t[1] = i
    THEN (CHOOSE t \in NewVotes : t[1] = i)[2]
    ELSE "none"

StatusInEnum == \A i \in Existing : reports[i].status \in ReportStatus

StatusStep ==
    \A i \in Existing :
       reports'[i].status # reports[i].status =>
          /\ lastOp'.result = Ok
          /\ <<reports[i].status, reports'[i].status, lastOp'.function, VotedPhase(i)>>
                \in LifecycleEdges

C1_Lifecycle == [] StatusInEnum /\ [][StatusStep]_vars

\* A report that was validated, rejected by an authority, re-opened on appeal,
\* marked solved, reopened by the verification vote, marked solved again and
\* closed: seven of the nine edges on one path.
C1_Witness ==
    /\ 0 \in Existing
    /\ reports[0].status = "Closed"
    /\ reports[0].reopenCount = 1
    /\ Registered(0, "Rejection_Review") # {}

----------------------------------------------------------------------------
(* C2: a submission nullifier backs at most one report: createReport by the  *)
(* relayer with a nullifier an earlier createReport consumed reverts with    *)
(* "Report already submitted by this citizen" whatever the evidence          *)
(* reference and creates nothing, and no two reports share a                 *)
(* submissionNullifier.                                                      *)

NullifiersDistinct ==
    \A i, j \in Existing :
       reports[i].submissionNullifier = reports[j].submissionNullifier => i = j

\* The nullifiers consumed are exactly those of the reports.
ConsumedAreBacked ==
    submissionNullifiers = { reports[i].submissionNullifier : i \in Existing }

DuplicateRejected ==
    \A cid \in CIDs, n \in submissionNullifiers :
       createReport(Relayer, cid, n) =>
          /\ lastOp'.result = DuplicateSubmission
          /\ UNCHANGED storage

C2_NullifierBacksOneReport ==
    /\ [] (NullifiersDistinct /\ ConsumedAreBacked)
    /\ [][lastOp'.function = "createReport" => DuplicateRejected]_vars

\* Two reports exist and a further createReport with a consumed nullifier has
\* just been rejected.
C2_Witness ==
    /\ nextReportId = 2
    /\ lastOp = Op("createReport", DuplicateSubmission)

----------------------------------------------------------------------------
(* C3: for every (reportId, phase, nullifier) triple at most one vote is     *)
(* ever accepted: the registry of triples only grows, an accepted vote adds  *)
(* exactly one triple that was not registered, and a vote whose triple is    *)
(* registered reverts with "Citizen already voted in this phase" and changes *)
(* nothing, also when the report has left and re-entered the phase.          *)

VoteRegistryGrows == reportVotes \subseteq reportVotes'

\* An accepted vote registers exactly one triple, one not registered before.
AcceptedVoteIsNew ==
    lastOp' = Op("voteOnReport", Ok) => Cardinality(NewVotes) = 1

\* A tally moves only in a step that registers a new triple for the report.
TallyNeedsNewVote ==
    \A i \in Existing :
       <<reports'[i].votesFor, reports'[i].votesAgainst>> #
          <<reports[i].votesFor, reports[i].votesAgainst>>
       => \/ lastOp'.function \in { "markAsSolved", "rejectIssue" }
          \/ \E t \in NewVotes : t[1] = i

\* A vote by the relayer whose triple is registered is rejected as a
\* duplicate, whatever the state of the report.
RepeatRejected ==
    \A t \in reportVotes :
       VoteOnReportResult(Relayer, t[1], t[3], t[2]) = DuplicateVote

C3_OneVotePerTriple ==
    /\ [] RepeatRejected
    /\ [][VoteRegistryGrows /\ AcceptedVoteIsNew /\ TallyNeedsNewVote]_vars

\* A repeated vote has just been rejected while the report is in its second
\* (or later) verification round, with the nullifiers of the earlier round
\* still registered.
C3_Witness ==
    /\ lastOp = Op("voteOnReport", DuplicateVote)
    /\ 0 \in Existing
    /\ reports[0].status = "Pending_Verification"
    /\ reports[0].reopenCount >= 1
    /\ Cardinality(Registered(0, "Verification")) >= REOPEN_THRESHOLD

----------------------------------------------------------------------------
(* C4: a voting nullifier registered under one (reportId, phase) does not    *)
(* block a vote under another: a vote by the relayer whose nullifier is      *)
(* registered for another report or another phase, but not for this          *)
(* (reportId, phase), passes every check of voteOnReport when the report     *)
(* exists, has not expired and has the status of the phase.                  *)

CountedElsewhere(id, phase, n) ==
    \E t \in reportVotes : t[3] = n /\ (t[1] # id \/ t[2] # phase)

ReuseAccepted ==
    \A id \in Existing, phase \in VotingPhase, n \in 1..MaxNull :
       ( /\ CountedElsewhere(id, phase, n)
         /\ <<id, phase, n>> \notin reportVotes
         /\ now <= reports[id].expiresAt
         /\ reports[id].status = PhaseStatus(phase) )
       => VoteOnReportResult(Relayer, id, n, phase) = Ok

----------------------------------------------------------------------------
(* C5: for every report reopenCount is at most REOPEN_LIMIT, and no step     *)
(* decreases it.                                                             *)

ReopenBounded == \A i \in Existing : reports[i].reopenCount <= REOPEN_LIMIT

ReopenMonotone ==
    \A i \in Existing : reports'[i].reopenCount >= reports[i].reopenCount

C5_ReopenCountBoundedMonotone == [] ReopenBounded /\ [][ReopenMonotone]_vars

\* The limit is reached, after two earlier reopen / markAsSolved rounds.
C5_Witness ==
    /\ Accepted("voteOnReport")
    /\ 0 \in Existing
    /\ reports[0].reopenCount = REOPEN_LIMIT

----------------------------------------------------------------------------
(* C6: in Pending_Verification the accepted vote(false) that brings          *)
(* votesAgainst to REOPEN_THRESHOLD adds exactly 1 to reopenCount and moves  *)
(* the report to Reopened when the new reopenCount is below REOPEN_LIMIT and *)
(* to Closed when it equals REOPEN_LIMIT; a report is never Reopened with    *)
(* reopenCount = REOPEN_LIMIT.                                               *)

ReopenTriggered(i) ==
    /\ lastOp' = Op("voteOnReport", Ok)
    /\ reports[i].status = "Pending_Verification"
    /\ reports[i].votesAgainst = REOPEN_THRESHOLD - 1
    /\ reports'[i].votesAgainst = REOPEN_THRESHOLD

ReopenOrForcedClosure ==
    \A i \in Existing :
       ReopenTriggered(i) =>
          /\ reports'[i].reopenCount = reports[i].reopenCount + 1
          /\ reports'[i].status =
                IF reports'[i].reopenCount < REOPEN_LIMIT THEN "Reopened" ELSE "Closed"

ReopenedBelowLimit ==
    \A i \in Existing :
       reports[i].status = "Reopened" =>
          reports[i].reopenCount \in 1..(REOPEN_LIMIT - 1)

C6_ReopenOrForcedClosure == [] ReopenedBelowLimit /\ [][ReopenOrForcedClosure]_vars

\* The third reopen-triggering vote has just closed the report.
C6_Witness ==
    /\ Accepted("voteOnReport")
    /\ 0 \in Existing
    /\ reports[0].status = "Closed"
    /\ reports[0].votesAgainst = REOPEN_THRESHOLD
    /\ reports[0].reopenCount = REOPEN_LIMIT
    /\ events[1].name = "StatusChanged"
    /\ events[1].oldStatus = "Pending_Verification"

----------------------------------------------------------------------------
(* C7: every voteOnReport by the relayer on an existing report made when     *)
(* now > expiresAt reverts with "Report has expired - no further voting      *)
(* allowed", whatever the phase, direction and voting nullifier, and leaves  *)
(* the storage as it was.                                                    *)

ExpiredVoteReverts ==
    \A id \in Existing, phase \in VotingPhase, dir \in BOOLEAN, n \in 1..MaxNull :
       ( /\ now > reports[id].expiresAt
         /\ voteOnReport(Relayer, id, dir, n, phase) )
       => /\ lastOp'.result = ReportExpired
          /\ UNCHANGED storage

C7_ExpiredVoteReportsExpired ==
    [][lastOp'.function = "voteOnReport" => ExpiredVoteReverts]_vars

----------------------------------------------------------------------------
(* C8: a rejected createReport, voteOnReport, markAsSolved or rejectIssue    *)
(* leaves the whole storage unchanged (reports, counters, both nullifier     *)
(* registries, nextReportId) and emits no event.                             *)

RejectedChangesNothing ==
    lastOp'.result # Ok => (UNCHANGED storage /\ events' = << >>)

C8_RejectedChangesNothing == [][RejectedChangesNothing]_vars

\* A vote arriving after the threshold was crossed has just been rejected:
\* the tally stays at the threshold and the nullifier is not registered.
C8_Witness ==
    /\ lastOp = Op("voteOnReport", NotInValidation)
    /\ 0 \in Existing
    /\ reports[0].status = "Open"
    /\ reports[0].votesFor = VALIDATION_THRESHOLD
    /\ Cardinality(Registered(0, "Validation")) =
          reports[0].votesFor + reports[0].votesAgainst

----------------------------------------------------------------------------
(* C9: createReport and voteOnReport pass the role check only for the        *)
(* relayer, markAsSolved and rejectIssue only for the three authority nodes; *)
(* every other caller, the deployer admin included, is rejected with         *)
(* AccessControlUnauthorizedAccount, and a call so rejected changes nothing. *)

Authorities == { GovNode, NgoNode, IntlNode }

RoleGate ==
    /\ \A c \in Accounts \ { Relayer } :
          /\ \A n \in 1..MaxReports : CreateReportResult(c, n) = AccessDenied
          /\ \A id \in IdInputs, phase \in VotingPhase :
                \A n \in VoteInputs(id, phase, MaxNull) :
                   VoteOnReportResult(c, id, n, phase) = AccessDenied
    /\ \A n \in 1..MaxReports : CreateReportResult(Relayer, n) # AccessDenied
    /\ \A id \in IdInputs, phase \in VotingPhase :
          \A n \in VoteInputs(id, phase, MaxNull) :
             VoteOnReportResult(Relayer, id, n, phase) # AccessDenied
    /\ \A c \in Accounts \ Authorities, id \in IdInputs :
          /\ MarkAsSolvedResult(c, id) = AccessDenied
          /\ RejectIssueResult(c, id) = AccessDenied
    /\ \A c \in Authorities, id \in IdInputs :
          /\ MarkAsSolvedResult(c, id) # AccessDenied
          /\ RejectIssueResult(c, id) # AccessDenied

DeniedChangesNothing ==
    lastOp'.result = AccessDenied => (UNCHANGED storage /\ events' = << >>)

\* An accepted call is not one a caller without the role could have made:
\* the arguments of the call are read off its effects (the nullifier it
\* consumed, the triple it registered, the actor of the event it emitted).
AcceptedByRoleHolder ==
    /\ lastOp' = Op("createReport", Ok) =>
          \A c \in Accounts \ { Relayer }, cid \in CIDs :
             \A n \in submissionNullifiers' \ submissionNullifiers :
                ~createReport(c, cid, n)
    /\ lastOp' = Op("voteOnReport", Ok) =>
          \A c \in Accounts \ { Relayer }, t \in NewVotes, dir \in BOOLEAN :
             ~voteOnReport(c, t[1], dir, t[3], t[2])
    /\ (lastOp' = Op("markAsSolved", Ok) \/ lastOp' = Op("rejectIssue", Ok)) =>
          events'[1].changedBy \in Authorities

----------------------------------------------------------------------------
(* C10: markAsSolved by an authority reverts with "Invalid state to mark as  *)
(* solved" exactly when the status is neither Open nor Reopened, rejectIssue *)
(* by an authority reverts with "Invalid state to reject" exactly when the   *)
(* status is not Open (so also on a Reopened report), and a call so rejected *)
(* changes nothing.                                                          *)

AuthoritySourceStates ==
    \A c \in Authorities, id \in IdInputs :
       /\ MarkAsSolvedResult(c, id) =
             IF ReportAt(id).status \in { "Open", "Reopened" }
             THEN Ok ELSE InvalidStateSolve
       /\ RejectIssueResult(c, id) =
             IF ReportAt(id).status = "Open" THEN Ok ELSE InvalidStateReject

InvalidStateChangesNothing ==
    lastOp'.result \in InvalidStateForAction =>
       (UNCHANGED storage /\ events' = << >>)

C10_AuthoritySourceStates ==
    [] AuthoritySourceStates /\ [][InvalidStateChangesNothing]_vars

\* rejectIssue has just been refused while the report is Reopened.
C10_Witness ==
    /\ lastOp = Op("rejectIssue", InvalidStateReject)
    /\ 0 \in Existing
    /\ reports[0].status = "Reopened"

----------------------------------------------------------------------------
(* Shorthands for the steps of a vote *)

\* The step is an accepted vote on report i.
VoteAcceptedOn(i) ==
    /\ lastOp' = Op("voteOnReport", Ok)
    /\ \E t \in NewVotes : t[1] = i

\* The direction of the accepted vote, as its VoteCast event carries it.
CastDirection == events'[Len(events')].voteDirection

\* The account a markAsSolved / rejectIssue event names as its actor.
ChangedBy == events'[1].changedBy

\* Every report but i is as it was.
OthersUnchanged(i) ==
    /\ DOMAIN reports' = DOMAIN reports
    /\ \A j \in Existing \ { i } : reports'[j] = reports[j]

----------------------------------------------------------------------------
(* C11: an accepted markAsSolved, from Open or from Reopened, leaves the     *)
(* report with status Pending_Verification, votesFor = votesAgainst = 0 and  *)
(* actionedBy = the calling authority, and with every other field            *)
(* (reopenCount, expiresAt, id, ipfsCID, submissionNullifier, createdAt) as  *)
(* it was; nothing else in the storage changes.                              *)

MarkAsSolvedEffect ==
    \A c \in Authorities, id \in IdInputs :
       (markAsSolved(c, id) /\ lastOp'.result = Ok) =>
          /\ reports[id].status \in { "Open", "Reopened" }
          /\ reports'[id] =
                [reports[id] EXCEPT !.status = "Pending_Verification",
                                    !.votesFor = 0, !.votesAgainst = 0,
                                    !.actionedBy = c]
          /\ ChangedBy = c
          /\ OthersUnchanged(id)
          /\ UNCHANGED <<nextReportId, submissionNullifiers, reportVotes>>

C11_MarkAsSolvedEffect ==
    [][lastOp'.function = "markAsSolved" => MarkAsSolvedEffect]_vars

\* markAsSolved has just been accepted on a report that was Reopened, whose
\* tallies of the lost verification round were reset.
C11_Witness ==
    /\ Accepted("markAsSolved")
    /\ 0 \in Existing
    /\ reports[0].status = "Pending_Verification"
    /\ reports[0].reopenCount = 2
    /\ reports[0].votesFor = 0 /\ reports[0].votesAgainst = 0
    /\ reports[0].actionedBy = GovNode
    /\ events[1].oldStatus = "Reopened"

----------------------------------------------------------------------------
(* C12: an accepted rejectIssue, which requires status Open, leaves the      *)
(* report with status Pending_Rejection_Review, votesFor = votesAgainst = 0  *)
(* and actionedBy = the calling authority, and with every other field        *)
(* (reopenCount, expiresAt, id, ipfsCID, submissionNullifier, createdAt) as  *)
(* it was; nothing else in the storage changes.                              *)

RejectIssueEffect ==
    \A c \in Authorities, id \in IdInputs :
       (rejectIssue(c, id) /\ lastOp'.result = Ok) =>
          /\ reports[id].status = "Open"
          /\ reports'[id] =
                [reports[id] EXCEPT !.status = "Pending_Rejection_Review",
                                    !.votesFor = 0, !.votesAgainst = 0,
                                    !.actionedBy = c]
          /\ ChangedBy = c
          /\ OthersUnchanged(id)
          /\ UNCHANGED <<nextReportId, submissionNullifiers, reportVotes>>

C12_RejectIssueEffect ==
    [][lastOp'.function = "rejectIssue" => RejectIssueEffect]_vars

\* rejectIssue has just been accepted on the report as validation left it
\* (votesFor at the threshold before the call, no authority action before).
C12_Witness ==
    /\ Accepted("rejectIssue")
    /\ 0 \in Existing
    /\ reports[0].status = "Pending_Rejection_Review"
    /\ reports[0].votesFor = 0 /\ reports[0].votesAgainst = 0
    /\ reports[0].actionedBy = GovNode
    /\ Registered(0, "Rejection_Review") = {}
    /\ Cardinality(Registered(0, "Validation")) = VALIDATION_THRESHOLD + 2

----------------------------------------------------------------------------
(* C13: in Pending_Validation an accepted vote(true) adds exactly 1 to       *)
(* votesFor and changes no other field, except that the vote bringing        *)
(* votesFor to VALIDATION_THRESHOLD also sets the status to Open, in the     *)
(* same step; a report is Pending_Validation exactly while both tallies of   *)
(* its validation are below their thresholds.                                *)

ValidationVoteFor ==
    \A i \in Existing :
       ( /\ VoteAcceptedOn(i)
         /\ reports[i].status = "Pending_Validation"
         /\ CastDirection = TRUE )
       => /\ reports'[i] =
                [reports[i] EXCEPT
                    !.votesFor = @ + 1,
                    !.status = IF reports[i].votesFor + 1 = VALIDATION_THRESHOLD
                               THEN "Open" ELSE "Pending_Validation"]
          /\ OthersUnchanged(i)

\* Below both thresholds the report is still in validation, and conversely.
StaysInValidation ==
    \A i \in Existing :
       reports[i].status = "Pending_Validation" <=>
          /\ Cardinality(Registered(i, "Validation")) =
                reports[i].votesFor + reports[i].votesAgainst
          /\ reports[i].votesFor < VALIDATION_THRESHOLD
          /\ reports[i].votesAgainst < REJECTION_THRESHOLD
          /\ reports[i].actionedBy = AUTOMATIC_TRANSITION

C13_ValidationVoteFor == [] StaysInValidation /\ [][ValidationVoteFor]_vars

\* The third vote(true) has just opened a report that also has two votes
\* against.
C13_Witness ==
    /\ Accepted("voteOnReport")
    /\ \E i \in Existing :
          /\ reports[i].status = "Open"
          /\ reports[i].votesFor = VALIDATION_THRESHOLD
          /\ reports[i].votesAgainst = REJECTION_THRESHOLD - 1
          /\ reports[i].actionedBy = AUTOMATIC_TRANSITION
          /\ Len(events) = 2
          /\ events[1].reportId = i

----------------------------------------------------------------------------
(* C14: in Pending_Validation the accepted vote(false) that brings           *)
(* votesAgainst to REJECTION_THRESHOLD sets the status to Community_Rejected *)
(* in the same step, whatever votesFor (0, 1 or 2) is, and changes nothing   *)
(* else of the report.                                                       *)

ValidationVoteAgainst ==
    \A i \in Existing :
       ( /\ VoteAcceptedOn(i)
         /\ reports[i].status = "Pending_Validation"
         /\ CastDirection = FALSE )
       => /\ reports'[i] =
                [reports[i] EXCEPT
                    !.votesAgainst = @ + 1,
                    !.status = IF reports[i].votesAgainst + 1 = REJECTION_THRESHOLD
                               THEN "Community_Rejected" ELSE "Pending_Validation"]
          /\ reports[i].votesFor < VALIDATION_THRESHOLD
          /\ OthersUnchanged(i)

C14_ValidationVoteAgainst == [][ValidationVoteAgainst]_vars

\* The third vote(false) has just rejected a report that has two votes for.
C14_Witness ==
    /\ Accepted("voteOnReport")
    /\ \E i \in Existing :
          /\ reports[i].status = "Community_Rejected"
          /\ reports[i].votesAgainst = REJECTION_THRESHOLD
          /\ reports[i].votesFor = VALIDATION_THRESHOLD - 1
          /\ Len(events) = 2
          /\ events[1].reportId = i

----------------------------------------------------------------------------
(* C15: in Pending_Verification the accepted vote(true) that brings votesFor *)
(* to VERIFICATION_THRESHOLD sets the status to Closed in the same step and  *)
(* leaves reopenCount, and every field but votesFor and status, as it was;   *)
(* an earlier vote(true) only adds 1 to votesFor.                            *)

VerificationVoteFor ==
    \A i \in Existing :
       ( /\ VoteAcceptedOn(i)
         /\ reports[i].status = "Pending_Verification"
         /\ CastDirection = TRUE )
       => /\ reports'[i] =
                [reports[i] EXCEPT
                    !.votesFor = @ + 1,
                    !.status = IF reports[i].votesFor + 1 = VERIFICATION_THRESHOLD
                               THEN "Closed" ELSE "Pending_Verification"]
          /\ reports'[i].reopenCount = reports[i].reopenCount
          /\ reports[i].votesFor < VERIFICATION_THRESHOLD

C15_VerificationVoteFor == [][VerificationVoteFor]_vars

\* The community has just confirmed the fix of a report that had been
\* reopened once: the report is Closed by the third vote(true) and its
\* reopenCount is still 1.
C15_Witness ==
    /\ Accepted("voteOnReport")
    /\ 0 \in Existing
    /\ reports[0].status = "Closed"
    /\ reports[0].votesFor = VERIFICATION_THRESHOLD
    /\ reports[0].votesAgainst = REOPEN_THRESHOLD - 1
    /\ reports[0].reopenCount = 1
    /\ Len(events) = 2
    /\ events[1].oldStatus = "Pending_Verification"

----------------------------------------------------------------------------
(* C16: in Pending_Rejection_Review the accepted vote(true) that brings      *)
(* votesFor to UPHOLD_REJECTION_THRESHOLD sets the status to Closed, the     *)
(* accepted vote(false) that brings votesAgainst to APPEAL_THRESHOLD sets it *)
(* to Open, any other accepted vote leaves it Pending_Rejection_Review, and  *)
(* no step takes a report from Pending_Rejection_Review to                   *)
(* Community_Rejected.                                                       *)

RejectionReviewVote ==
    \A i \in Existing :
       ( /\ VoteAcceptedOn(i)
         /\ reports[i].status = "Pending_Rejection_Review" )
       => reports'[i] =
             IF CastDirection
             THEN [reports[i] EXCEPT
                     !.votesFor = @ + 1,
                     !.status = IF reports[i].votesFor + 1 = UPHOLD_REJECTION_THRESHOLD
                                THEN "Closed" ELSE "Pending_Rejection_Review"]
             ELSE [reports[i] EXCEPT
                     !.votesAgainst = @ + 1,
                     !.status = IF reports[i].votesAgainst + 1 = APPEAL_THRESHOLD
                                THEN "Open" ELSE "Pending_Rejection_Review"]

NoCommunityRejectionOnReview ==
    \A i \in Existing :
       reports[i].status = "Pending_Rejection_Review" =>
          reports'[i].status \in { "Pending_Rejection_Review", "Closed", "Open" }

\* A report the community rejected never saw an authority or a review vote.
CommunityRejectedOnlyInValidation ==
    \A i \in Existing :
       reports[i].status = "Community_Rejected" =>
          /\ Registered(i, "Rejection_Review") = {}
          /\ reports[i].actionedBy = AUTOMATIC_TRANSITION

C16_RejectionReviewInverted ==
    /\ [] CommunityRejectedOnlyInValidation
    /\ [][RejectionReviewVote /\ NoCommunityRejectionOnReview]_vars

\* The third vote(false) has just returned the report to Open, with two
\* votes(true) for upholding the rejection also counted.
C16_Witness ==
    /\ Accepted("voteOnReport")
    /\ 0 \in Existing
    /\ reports[0].status = "Open"
    /\ reports[0].votesAgainst = APPEAL_THRESHOLD
    /\ reports[0].votesFor = UPHOLD_REJECTION_THRESHOLD - 1
    /\ Len(events) = 2
    /\ events[1].oldStatus = "Pending_Rejection_Review"
    /\ events[2].voteDirection = FALSE

----------------------------------------------------------------------------
(* C17: Closed and Community_Rejected are absorbing: for a report with       *)
(* either status every voteOnReport (any caller, phase and nullifier),       *)
(* markAsSolved and rejectIssue (any caller) is rejected, and no step        *)
(* changes any field of the report.                                          *)

Terminal == { "Closed", "Community_Rejected" }

TerminalRejectsAll ==
    \A i \in Existing :
       reports[i].status \in Terminal =>
          \A c \in Accounts :
             /\ MarkAsSolvedResult(c, i) # Ok
             /\ RejectIssueResult(c, i) # Ok
             /\ \A phase \in VotingPhase, n \in 1..MaxNull :
                   VoteOnReportResult(c, i, n, phase) # Ok

TerminalFrozen ==
    \A i \in Existing :
       reports[i].status \in Terminal => reports'[i] = reports[i]

C17_TerminalAbsorbing == [] TerminalRejectsAll /\ [][TerminalFrozen]_vars

\* markAsSolved has just been refused on a report closed by the reopen limit.
C17_Witness ==
    /\ lastOp = Op("markAsSolved", InvalidStateSolve)
    /\ 0 \in Existing
    /\ reports[0].status = "Closed"
    /\ reports[0].reopenCount = REOPEN_LIMIT
    /\ reports[0].actionedBy = GovNode

----------------------------------------------------------------------------
(* C18: votesFor = votesAgainst = 0 in the state an accepted createReport,   *)
(* markAsSolved or rejectIssue leaves its report in (the entries into        *)
(* Pending_Validation, Pending_Verification and Pending_Rejection_Review);   *)
(* in every other step neither counter of a report decreases; an accepted    *)
(* vote adds exactly 1 to votesFor (true) or to votesAgainst (false) and     *)
(* leaves the other counter as it was, and nothing but a vote or an entry    *)
(* changes a counter.                                                        *)

Votable == { "Pending_Validation", "Pending_Verification", "Pending_Rejection_Review" }

Counters(report) == <<report.votesFor, report.votesAgainst>>

\* The step is an accepted markAsSolved or rejectIssue on report i.
PhaseEntryOn(i) ==
    /\ lastOp' = Op("markAsSolved", Ok) \/ lastOp' = Op("rejectIssue", Ok)
    /\ events'[1].reportId = i

EntryResetsCounters ==
    /\ lastOp' = Op("createReport", Ok) =>
          /\ nextReportId \in DOMAIN reports'
          /\ reports'[nextReportId].status = "Pending_Validation"
          /\ Counters(reports'[nextReportId]) = <<0, 0>>
    /\ \A i \in Existing :
          PhaseEntryOn(i) =>
             /\ reports'[i].status \in Votable \ { "Pending_Validation" }
             /\ reports'[i].status # reports[i].status
             /\ Counters(reports'[i]) = <<0, 0>>

CountersStep ==
    \A i \in Existing :
       IF PhaseEntryOn(i) THEN TRUE
       ELSE IF VoteAcceptedOn(i)
       THEN Counters(reports'[i]) =
               IF CastDirection
               THEN <<reports[i].votesFor + 1, reports[i].votesAgainst>>
               ELSE <<reports[i].votesFor, reports[i].votesAgainst + 1>>
       ELSE Counters(reports'[i]) = Counters(reports[i])

\* Every entry into a votable status is one of the three above.
EntryIsReset ==
    \A i \in Existing :
       (reports'[i].status \in Votable /\ reports'[i].status # reports[i].status)
          => PhaseEntryOn(i)

C18_CountersPerPhase == [][EntryResetsCounters /\ CountersStep /\ EntryIsReset]_vars

\* rejectIssue has just put the report into rejection review for the second
\* time, after an appeal that succeeded with two votes for upholding: the
\* tallies (2, 3) of the first review are gone.
C18_Witness ==
    /\ Accepted("rejectIssue")
    /\ 0 \in Existing
    /\ reports[0].status = "Pending_Rejection_Review"
    /\ Counters(reports[0]) = <<0, 0>>
    /\ Cardinality(Registered(0, "Rejection_Review")) = APPEAL_THRESHOLD + 2

----------------------------------------------------------------------------
(* C19: report ids are sequential and never reused: the reports are those    *)
(* with ids 0 .. nextReportId - 1, each stored under its own id; an accepted *)
(* createReport creates the report with id = the old nextReportId, adds 1 to *)
(* nextReportId and leaves every existing report as it was; no other step,   *)
(* a rejected createReport included, changes nextReportId or the set of      *)
(* reports.                                                                  *)

IdsSequential ==
    /\ Existing = 0..(nextReportId - 1)
    /\ \A i \in Existing : reports[i].id = i /\ reports[i].createdAt # 0
    /\ Cardinality(submissionNullifiers) = nextReportId

CreateTakesNextId ==
    IF lastOp' = Op("createReport", Ok)
    THEN /\ nextReportId' = nextReportId + 1
         /\ DOMAIN reports' = Existing \cup { nextReportId }
         /\ reports'[nextReportId].id = nextReportId
         /\ events'[1] = ReportCreated(nextReportId, reports'[nextReportId].ipfsCID, now)
         /\ \A i \in Existing : reports'[i] = reports[i]
    ELSE /\ nextReportId' = nextReportId
         /\ DOMAIN reports' = Existing

C19_SequentialIds == [] IdsSequential /\ [][CreateTakesNextId]_vars

\* A second report has just been created, with another evidence reference,
\* after the first report was validated: the first report keeps its record.
C19_Witness ==
    /\ Accepted("createReport")
    /\ nextReportId = 2
    /\ reports[0].status = "Open"
    /\ reports[0].votesFor = VALIDATION_THRESHOLD
    /\ reports[1].status = "Pending_Validation"
    /\ reports[1].id = 1
    /\ reports[0].ipfsCID # reports[1].ipfsCID

----------------------------------------------------------------------------
(* C20: for every report expiresAt = createdAt + EXPIRATION_TIMEOUT in every *)
(* reachable state, and no step changes the id, ipfsCID,                     *)
(* submissionNullifier, createdAt or expiresAt of an existing report: votes, *)
(* markAsSolved, rejectIssue, a reopen and an appeal leave the voting window *)
(* where creation put it.                                                    *)

ExpiryFixedAtCreation ==
    \A i \in Existing :
       reports[i].expiresAt = reports[i].createdAt + EXPIRATION_TIMEOUT

Immutable(report) ==
    << report.id, report.ipfsCID, report.submissionNullifier, report.createdAt,
       report.expiresAt >>

ImmutableFields ==
    \A i \in Existing : Immutable(reports'[i]) = Immutable(reports[i])

C20_ExpiryFixed == [] ExpiryFixedAtCreation /\ [][ImmutableFields]_vars

\* markAsSolved has just put a reopened report into a new verification round
\* after its voting window closed: the window is not extended, and a fresh
\* vote in the new round is refused as expired.
C20_Witness ==
    /\ Accepted("markAsSolved")
    /\ 0 \in Existing
    /\ reports[0].status = "Pending_Verification"
    /\ reports[0].reopenCount >= 1
    /\ now > reports[0].expiresAt
    /\ reports[0].expiresAt = reports[0].createdAt + EXPIRATION_TIMEOUT
    /\ VoteOnReportResult(Relayer, 0, MaxNull, "Verification") = ReportExpired

----------------------------------------------------------------------------
(* C21: an accepted createReport(ipfsCID, n), n not consumed before, stores  *)
(* under the next id a report with status Pending_Validation, votesFor =     *)
(* votesAgainst = reopenCount = 0, actionedBy = address(0), ipfsCID and n as *)
(* given, createdAt = now and expiresAt = now + EXPIRATION_TIMEOUT, marks n  *)
(* as consumed and registers no vote.                                        *)

CreateReportEffect ==
    \A cid \in CIDs, n \in 1..MaxReports :
       (createReport(Relayer, cid, n) /\ lastOp'.result = Ok) =>
          /\ n \notin submissionNullifiers
          /\ reports'[nextReportId] =
                [ id |-> nextReportId, ipfsCID |-> cid, submissionNullifier |-> n,
                  status |-> "Pending_Validation", createdAt |-> now,
                  actionedBy |-> AUTOMATIC_TRANSITION,
                  votesFor |-> 0, votesAgainst |-> 0, reopenCount |-> 0,
                  expiresAt |-> now + EXPIRATION_TIMEOUT ]
          /\ AUTOMATIC_TRANSITION \notin Accounts
          /\ submissionNullifiers' = submissionNullifiers \cup { n }
          /\ UNCHANGED reportVotes

C21_CreateReportEffect ==
    [][lastOp'.function = "createReport" => CreateReportEffect]_vars

\* The second report has just been created, with the second evidence
\* reference and the second nullifier, while the first report has votes.
C21_Witness ==
    /\ Accepted("createReport")
    /\ nextReportId = 2
    /\ reports[1].ipfsCID = "ipfs://QmB"
    /\ reports[1].submissionNullifier = 2
    /\ submissionNullifiers = { 1, 2 }
    /\ Counters(reports[1]) = <<0, 0>>
    /\ Counters(reports[0]) # <<0, 0>>

----------------------------------------------------------------------------
(* C22: a step in which time passes changes nothing of the storage and emits *)
(* nothing; once now > expiresAt the report has the record it had before,    *)
(* every vote on it by the relayer is rejected, and markAsSolved and         *)
(* rejectIssue by an authority are accepted or rejected by the status alone, *)
(* as before expiry.                                                         *)

TimeAloneChangesNothing ==
    now' # now => (UNCHANGED storage /\ events' = << >> /\ lastOp' = NoOp)

ExpiryOnlyBlocksVotes ==
    \A i \in Existing :
       now > reports[i].expiresAt =>
          /\ ReportAt(i) = reports[i]
          /\ \A phase \in VotingPhase, n \in 1..MaxNull :
                VoteOnReportResult(Relayer, i, n, phase) \in { ReportExpired, DuplicateVote }
          /\ \A c \in Authorities :
                /\ MarkAsSolvedResult(c, i) = Ok <=> reports[i].status \in { "Open", "Reopened" }
                /\ RejectIssueResult(c, i) = Ok <=> reports[i].status = "Open"

C22_TimeAloneChangesNothing ==
    [] ExpiryOnlyBlocksVotes /\ [][TimeAloneChangesNothing]_vars

\* Time has just passed the expiry of a report that is in the middle of a
\* verification round: status and tallies are as the last vote left them.
C22_Witness ==
    /\ lastOp = NoOp
    /\ 0 \in Existing
    /\ now > reports[0].expiresAt
    /\ reports[0].status = "Pending_Verification"
    /\ Counters(reports[0]) = <<1, 2>>
    /\ reports[0].reopenCount = 1

----------------------------------------------------------------------------
(* C23: after every vote-driven change of status (to Open,                   *)
(* Community_Rejected, Closed or Reopened) the report's actionedBy is the    *)
(* automatic marker address(0), not the address of an authority.             *)

AutomaticAfterVoteDriven ==
    \A i \in Existing :
       (VoteAcceptedOn(i) /\ reports'[i].status # reports[i].status)
          => reports'[i].actionedBy = AUTOMATIC_TRANSITION

C23_ActionedByAutomaticAfterVote == [][AutomaticAfterVoteDriven]_vars

----------------------------------------------------------------------------
(* C24: a step that changes the status of a report emits exactly one         *)
(* StatusChanged event for it, carrying the report id, the status before and *)
(* the status after; its changedBy is address(0) when the step is a vote and *)
(* the calling authority when it is markAsSolved or rejectIssue; a step that *)
(* changes no status emits no StatusChanged event.                           *)

StatusChangedFor(i) ==
    LET OfReport(e) == e.name = "StatusChanged" /\ e.reportId = i
    IN  SelectSeq(events', OfReport)

StatusChangedOnce ==
    \A i \in Existing :
       IF reports'[i].status # reports[i].status
       THEN /\ Len(StatusChangedFor(i)) = 1
            /\ StatusChangedFor(i)[1].oldStatus = reports[i].status
            /\ StatusChangedFor(i)[1].newStatus = reports'[i].status
            /\ IF lastOp'.function = "voteOnReport"
               THEN StatusChangedFor(i)[1].changedBy = AUTOMATIC_TRANSITION
               ELSE /\ lastOp'.function \in { "markAsSolved", "rejectIssue" }
                    /\ StatusChangedFor(i)[1].changedBy \in Authorities
                    /\ \/ markAsSolved(StatusChangedFor(i)[1].changedBy, i)
                       \/ rejectIssue(StatusChangedFor(i)[1].changedBy, i)
       ELSE StatusChangedFor(i) = << >>

\* The marker is no account, so an event never confuses the two.
MarkerIsNoPrincipal == AUTOMATIC_TRANSITION \notin Accounts

C24_StatusChangedOnce == [] MarkerIsNoPrincipal /\ [][StatusChangedOnce]_vars

\* A verification vote has just reopened a report that an authority had
\* marked solved: the event names address(0), the record names the authority.
C24_Witness ==
    /\ Accepted("voteOnReport")
    /\ 0 \in Existing
    /\ Len(events) = 2
    /\ events[1] = StatusChanged(0, "Pending_Verification", "Reopened",
                                 AUTOMATIC_TRANSITION)
    /\ reports[0].actionedBy = GovNode

----------------------------------------------------------------------------
(* C25: an accepted voteOnReport emits exactly one VoteCast event, the last  *)
(* event of the transaction, carrying the report id, the direction and the   *)
(* status of the report after the vote; when the vote changes the status the *)
(* transaction emits StatusChanged first and VoteCast second, otherwise      *)
(* VoteCast alone; an accepted createReport emits exactly one event,         *)
(* ReportCreated with the new id, the evidence reference and the timestamp.  *)

VoteCastOnce ==
    \A i \in Existing :
       VoteAcceptedOn(i) =>
          /\ events'[Len(events')] =
                VoteCast(i, events'[Len(events')].voteDirection, reports'[i].status)
          /\ IF reports'[i].status # reports[i].status
             THEN /\ Len(events') = 2
                  /\ events'[1].name = "StatusChanged"
                  /\ events'[1].newStatus = events'[2].currentStatus
             ELSE Len(events') = 1
          /\ Counters(reports'[i]) =
                IF events'[Len(events')].voteDirection
                THEN <<reports[i].votesFor + 1, reports[i].votesAgainst>>
                ELSE <<reports[i].votesFor, reports[i].votesAgainst + 1>>

ReportCreatedOnce ==
    lastOp' = Op("createReport", Ok) =>
       events' = << ReportCreated(nextReportId, reports'[nextReportId].ipfsCID, now) >>

\* VoteCast and ReportCreated are emitted by nothing else.
NoStrayEvents ==
    \A k \in 1..Len(events') :
       /\ events'[k].name = "VoteCast" => lastOp' = Op("voteOnReport", Ok)
       /\ events'[k].name = "ReportCreated" => lastOp' = Op("createReport", Ok)

C25_VoteCastOnce == [][VoteCastOnce /\ ReportCreatedOnce /\ NoStrayEvents]_vars

\* The third vote(true) of a rejection review has just closed the report:
\* StatusChanged to Closed, then VoteCast carrying Closed.
C25_Witness ==
    /\ Accepted("voteOnReport")
    /\ Len(events) = 2
    /\ events[1].name = "StatusChanged"
    /\ events[1].oldStatus = "Pending_Rejection_Review"
    /\ events[2] = VoteCast(0, TRUE, "Closed")

----------------------------------------------------------------------------
(* C26: a vote by the relayer reverts with "Report does not exist" exactly   *)
(* when no createReport has assigned the report id: always for an id never   *)
(* created, never for a created report, whatever the block timestamp (1 or   *)
(* later) at which it was created; such a revert changes nothing.            *)

NotFoundIffNeverCreated ==
    \A id \in 0..(MaxReports + 1), phase \in VotingPhase, n \in 1..MaxNull :
       VoteOnReportResult(Relayer, id, n, phase) = ReportNotFound
          <=> id \notin Existing

\* No vote is ever registered for an id that was not created.
VotesOnlyOnCreated == \A t \in reportVotes : t[1] \in Existing

NotFoundChangesNothing ==
    lastOp'.result = ReportNotFound => (UNCHANGED storage /\ events' = << >>)

C26_NotFoundIffNeverCreated ==
    /\ [] (NotFoundIffNeverCreated /\ VotesOnlyOnCreated)
    /\ [][NotFoundChangesNothing]_vars

\* A vote on a never-created id has just been refused while two reports
\* exist, created at different block times, the first of them expired.
C26_Witness ==
    /\ lastOp = Op("voteOnReport", ReportNotFound)
    /\ nextReportId = 2
    /\ reports[0].createdAt \in 2..MaxStart
    /\ reports[1].createdAt > reports[0].expiresAt
    /\ now <= reports[1].expiresAt

----------------------------------------------------------------------------
(* C27: a vote by the relayer on an unexpired report with a nullifier not    *)
(* registered for (report, phase) is rejected with the phase's "Not in ...   *)
(* phase" reason when the status is not the one of the phase, and accepted   *)
(* when it is; the rejected vote changes no tally and no status, emits       *)
(* nothing and registers no nullifier, so the same nullifier is accepted in  *)
(* that phase once the report is in it.                                      *)

WrongPhaseRejected ==
    \A i \in Existing, phase \in VotingPhase, n \in 1..MaxNull :
       (now <= reports[i].expiresAt /\ <<i, phase, n>> \notin reportVotes) =>
          VoteOnReportResult(Relayer, i, n, phase) =
             IF reports[i].status = PhaseStatus(phase) THEN Ok ELSE PhaseRevert(phase)

WrongPhaseChangesNothing ==
    lastOp'.result \in WrongPhaseForStatus =>
       (UNCHANGED storage /\ events' = << >>)

C27_WrongPhaseRejected ==
    [] WrongPhaseRejected /\ [][WrongPhaseChangesNothing]_vars

\* A rejection-review vote has just been refused on a report that is in its
\* second verification round and never was in rejection review.
C27_Witness ==
    /\ lastOp = Op("voteOnReport", NotInRejectionReview)
    /\ 0 \in Existing
    /\ reports[0].status = "Pending_Verification"
    /\ reports[0].reopenCount = 1
    /\ Registered(0, "Rejection_Review") = {}

----------------------------------------------------------------------------
(* C29: the outcome of a vote by the relayer is the first failing check in   *)
(* the order: report exists ("Report does not exist"), now <= expiresAt      *)
(* ("Report has expired ..."), status matches phase ("Not in ... phase"),    *)
(* triple unregistered ("Citizen already voted in this phase"); so a counted *)
(* Validation nullifier used again on an Open report gets "Not in validation *)
(* phase".                                                                   *)

FirstFailingCheck(reportId, votingNullifier, phase) ==
    IF reportId \notin Existing THEN ReportNotFound
    ELSE IF now > reports[reportId].expiresAt THEN ReportExpired
    ELSE IF reports[reportId].status # PhaseStatus(phase) THEN PhaseRevert(phase)
    ELSE IF <<reportId, phase, votingNullifier>> \in reportVotes THEN DuplicateVote
    ELSE Ok

ErrorIsFirstFailingCheck ==
    \A id \in IdInputs, phase \in VotingPhase, n \in 1..MaxNull :
       VoteOnReportResult(Relayer, id, n, phase) = FirstFailingCheck(id, n, phase)

\* The order as far as it can be told apart while no report has expired
\* (the outcome of a vote after expiry is the subject of C7).
C29_ErrorIsFirstFailingCheck ==
    (\A i \in Existing : now <= reports[i].expiresAt) => ErrorIsFirstFailingCheck

----------------------------------------------------------------------------
(* C30: the expiry bound is inclusive: at now = expiresAt a vote by the      *)
(* relayer with an unregistered nullifier in the phase of the report's       *)
(* status is accepted and tallied, and may change the status; at             *)
(* now > expiresAt no vote is accepted; no accepted vote is made after       *)
(* expiresAt.                                                                *)

InclusiveExpiry ==
    \A i \in Existing, phase \in VotingPhase, n \in 1..MaxNull :
       /\ ( /\ now = reports[i].expiresAt
            /\ reports[i].status = PhaseStatus(phase)
            /\ <<i, phase, n>> \notin reportVotes )
          => VoteOnReportResult(Relayer, i, n, phase) = Ok
       /\ now > reports[i].expiresAt =>
             VoteOnReportResult(Relayer, i, n, phase) # Ok

AcceptedWithinWindow ==
    \A i \in Existing :
       VoteAcceptedOn(i) =>
          /\ now <= reports[i].expiresAt
          /\ Counters(reports'[i]) # Counters(reports[i])

C30_InclusiveExpiry == [] InclusiveExpiry /\ [][AcceptedWithinWindow]_vars

\* At the expiry instant the third vote(false) of a verification round has
\* just reopened the report.
C30_Witness ==
    /\ Accepted("voteOnReport")
    /\ 0 \in Existing
    /\ now = reports[0].expiresAt
    /\ reports[0].status = "Reopened"
    /\ Len(events) = 2
    /\ events[2] = VoteCast(0, FALSE, "Reopened")

----------------------------------------------------------------------------
(* C28: in a submission the moderation approval precedes the upload of the   *)
(* evidence to IPFS and the upload precedes the call of createReport;        *)
(* content the moderation rejects is neither uploaded nor submitted to the   *)
(* chain.                                                                    *)

\* Every occurrence of stage `later` has an occurrence of `earlier` before it.
Precedes(stages, earlier, later) ==
    \A k \in 1..Len(stages) :
       stages[k] = later => \E j \in 1..(k - 1) : stages[j] = earlier

ModerationBeforeStorageBeforeChain ==
    /\ Precedes(pipeline.stages, "moderation", "ipfs")
    /\ Precedes(pipeline.stages, "ipfs", "chain")

RejectedContentGoesNowhere ==
    ~moderateContent(pipeline.description) =>
       \A k \in 1..Len(pipeline.stages) : pipeline.stages[k] \notin { "ipfs", "chain" }

C28_ModerationBeforeStorageBeforeChain ==
    ModerationBeforeStorageBeforeChain /\ RejectedContentGoesNowhere

----------------------------------------------------------------------------
(* C31: two votes for the same report and phase with distinct unregistered   *)
(* nullifiers, cast while the deciding counter is one below its threshold,   *)
(* are serialized: each of them would be accepted first; the one that is     *)
(* takes the counter to the threshold (never above) and changes the status;  *)
(* the other is then rejected with the phase's "Not in ... phase" reason,    *)
(* is not tallied, and its nullifier stays unregistered.                     *)

\* The threshold a vote of the direction has to reach in the phase.
DecidingThreshold(phase, voteDirection) ==
    CASE phase = "Validation" ->
            IF voteDirection THEN VALIDATION_THRESHOLD ELSE REJECTION_THRESHOLD
      [] phase = "Rejection_Review" ->
            IF voteDirection THEN UPHOLD_REJECTION_THRESHOLD ELSE APPEAL_THRESHOLD
      [] phase = "Verification" ->
            IF voteDirection THEN VERIFICATION_THRESHOLD ELSE REOPEN_THRESHOLD

\* The counter a vote of the direction increments.
DecidingCounter(report, voteDirection) ==
    IF voteDirection THEN report.votesFor ELSE report.votesAgainst

\* While the round is open, every unregistered nullifier would be accepted:
\* either of two racing votes can be the first.
EitherVoteCanBeFirst ==
    \A i \in Existing, phase \in VotingPhase :
       (reports[i].status = PhaseStatus(phase) /\ now <= reports[i].expiresAt) =>
          \A n \in (1..MaxNull) \ Registered(i, phase) :
             VoteOnReportResult(Relayer, i, n, phase) = Ok

\* The vote that changes the status found the counter one below the threshold
\* and leaves it at the threshold; every nullifier still unregistered for the
\* phase is refused from then on for the phase mismatch.
WinnerClosesTheRound ==
    \A i \in Existing, phase \in VotingPhase, voteDirection \in BOOLEAN :
       (/\ VoteAcceptedOn(i)
        /\ phase = VotedPhase(i)
        /\ voteDirection = CastDirection
        /\ reports'[i].status # reports[i].status) =>
          LET limit == DecidingThreshold(phase, voteDirection)
          IN  /\ DecidingCounter(reports[i], voteDirection) = limit - 1
              /\ DecidingCounter(reports[i], voteDirection)' = limit
              /\ \A n \in 1..MaxNull :
                    n \notin Registered(i, phase)' =>
                       VoteOnReportResult(Relayer, i, n, phase)' = PhaseRevert(phase)

\* The refused vote is not tallied and its nullifier is not registered.
LoserLeavesNoTrace ==
    \A i \in Existing :
       (lastOp'.function = "voteOnReport" /\ lastOp'.result \in WrongPhaseForStatus) =>
          /\ Counters(reports'[i]) = Counters(reports[i])
          /\ reports'[i].status = reports[i].status
          /\ reportVotes' = reportVotes

C31_RacingVotesSerialized ==
    [] EitherVoteCanBeFirst /\ [][WinnerClosesTheRound /\ LoserLeavesNoTrace]_vars

\* The report was rejected by the community with three votes against two, and
\* the sixth validation vote has just been refused: five nullifiers registered.
C31_Witness ==
    /\ lastOp = Op("voteOnReport", NotInValidation)
    /\ 0 \in Existing
    /\ reports[0].status = "Community_Rejected"
    /\ Counters(reports[0]) = <<2, REJECTION_THRESHOLD>>
    /\ Cardinality(Registered(0, "Validation")) = VALIDATION_THRESHOLD + REJECTION_THRESHOLD - 1

----------------------------------------------------------------------------
(* C32: markAsSolved and rejectIssue do not look at expiresAt: past the       *)
(* window they are accepted from the same statuses as before. So once        *)
(* now > expiresAt a report changes at most once more: only from Open or     *)
(* Reopened, by an authority action, into Pending_Verification or            *)
(* Pending_Rejection_Review with both counters 0, never into a terminal      *)
(* status; in every other status the report is frozen, so a report moved     *)
(* into a voting phase after expiry stays there with counters (0, 0).        *)

Expired(i) == now > reports[i].expiresAt

AuthorityIgnoresExpiry ==
    \A i \in Existing, authority \in Authorities :
       Expired(i) =>
          /\ MarkAsSolvedResult(authority, i) = Ok
                <=> reports[i].status \in { "Open", "Reopened" }
          /\ RejectIssueResult(authority, i) = Ok <=> reports[i].status = "Open"

OneStepAfterExpiry ==
    \A i \in Existing :
       (Expired(i) /\ reports'[i] # reports[i]) =>
          /\ reports[i].status \in { "Open", "Reopened" }
          /\ lastOp' \in { Op("markAsSolved", Ok), Op("rejectIssue", Ok) }
          /\ reports'[i].status \in { "Pending_Verification", "Pending_Rejection_Review" }
          /\ Counters(reports'[i]) = <<0, 0>>
          /\ Expired(i)'

C32_AuthorityActsAfterExpiry ==
    [] AuthorityIgnoresExpiry /\ [][OneStepAfterExpiry]_vars

\* An authority has just rejected an issue whose voting window had passed.
C32_Witness ==
    /\ Accepted("rejectIssue")
    /\ 0 \in Existing
    /\ Expired(0)
    /\ reports[0].status = "Pending_Rejection_Review"
    /\ Counters(reports[0]) = <<0, 0>>

----------------------------------------------------------------------------
(* C33: a report enters Pending_Verification at most REOPEN_LIMIT times.     *)
(* The entries are numbered by reopenCount: markAsSolved is accepted only    *)
(* with reopenCount < REOPEN_LIMIT, from Open exactly when reopenCount = 0,  *)
(* and the report leaves Pending_Verification either to Closed or to         *)
(* Reopened with reopenCount one higher. From Pending_Verification, Reopened *)
(* and Closed the report never returns to Open, Pending_Rejection_Review or  *)
(* Pending_Validation, and rejectIssue is never accepted again.              *)

AfterVerification == { "Pending_Verification", "Reopened", "Closed" }

BeforeVerification ==
    { "Pending_Validation", "Community_Rejected", "Open", "Pending_Rejection_Review" }

\* A report that is Open (or earlier in its life) was never marked solved.
NeverVerifiedBefore ==
    \A i \in Existing :
       reports[i].status \in BeforeVerification =>
          /\ reports[i].reopenCount = 0
          /\ Registered(i, "Verification") = {}

RejectIssueNeverAgain ==
    \A i \in Existing, authority \in Authorities :
       (reports[i].status \in AfterVerification \/ reports[i].reopenCount > 0) =>
          RejectIssueResult(authority, i) = InvalidStateReject

VerificationEntryNumbered ==
    \A i \in Existing :
       (lastOp' = Op("markAsSolved", Ok) /\ events'[1].reportId = i) =>
          /\ reports'[i].status = "Pending_Verification"
          /\ reports'[i].reopenCount = reports[i].reopenCount
          /\ reports[i].reopenCount < REOPEN_LIMIT
          /\ reports[i].status = "Open" <=> reports[i].reopenCount = 0
          /\ reports[i].status = "Reopened" <=> reports[i].reopenCount > 0

VerificationRoundEnds ==
    \A i \in Existing :
       (reports[i].status = "Pending_Verification"
           /\ reports'[i].status # "Pending_Verification") =>
          \/ /\ reports'[i].status = "Reopened"
             /\ reports'[i].reopenCount = reports[i].reopenCount + 1
          \/ /\ reports'[i].status = "Closed"
             /\ reports'[i].reopenCount \in { reports[i].reopenCount, REOPEN_LIMIT }

NoWayBackFromVerification ==
    \A i \in Existing :
       reports[i].status \in AfterVerification =>
          reports'[i].status \in AfterVerification

C33_VerificationLoopBounded ==
    /\ [] (NeverVerifiedBefore /\ RejectIssueNeverAgain)
    /\ [][/\ VerificationEntryNumbered
          /\ VerificationRoundEnds
          /\ NoWayBackFromVerification]_vars

\* The report is in its third verification round, and an authority has just
\* tried to reject the issue.
C33_Witness ==
    /\ lastOp = Op("rejectIssue", InvalidStateReject)
    /\ 0 \in Existing
    /\ reports[0].status = "Pending_Verification"
    /\ reports[0].reopenCount = REOPEN_LIMIT - 1

----------------------------------------------------------------------------
(* C34: the reject / appeal loop is bounded by no counter. An appeal that    *)
(* reaches APPEAL_THRESHOLD returns the report to Open with reopenCount      *)
(* unchanged (0), and an Open report accepts rejectIssue and markAsSolved    *)
(* from every authority however many appeals went before; with three fresh   *)
(* Rejection_Review nullifiers to each appeal the loop runs more than        *)
(* REOPEN_LIMIT times.                                                       *)

AppealRestoresOpen ==
    \A i \in Existing :
       (VoteAcceptedOn(i) /\ reports[i].status = "Pending_Rejection_Review"
           /\ reports'[i].status # "Pending_Rejection_Review") =>
          /\ ~CastDirection
          /\ reports'[i].status = "Open"
          /\ reports'[i].votesAgainst = APPEAL_THRESHOLD
          /\ reports'[i].reopenCount = reports[i].reopenCount
          /\ reports'[i].expiresAt = reports[i].expiresAt

OpenAcceptsBothActions ==
    \A i \in Existing, authority \in Authorities :
       reports[i].status = "Open" =>
          /\ reports[i].reopenCount = 0
          /\ RejectIssueResult(authority, i) = Ok
          /\ MarkAsSolvedResult(authority, i) = Ok

\* Every appeal took exactly three nullifiers.
AppealsCastSoFar ==
    \A i \in Existing :
       reports[i].status \in { "Open", "Pending_Validation", "Community_Rejected" } =>
          Cardinality(Registered(i, "Rejection_Review")) % APPEAL_THRESHOLD = 0

C34_AppealLoopUnbounded ==
    /\ [] (OpenAcceptsBothActions /\ AppealsCastSoFar)
    /\ [][AppealRestoresOpen]_vars

\* The fourth appeal has just re-opened the report: REOPEN_LIMIT + 1 rounds
\* of APPEAL_THRESHOLD nullifiers each, and reopenCount still 0.
C34_Witness ==
    /\ Accepted("voteOnReport")
    /\ 0 \in Existing
    /\ reports[0].status = "Open"
    /\ reports[0].reopenCount = 0
    /\ Cardinality(Registered(0, "Rejection_Review"))
          = (REOPEN_LIMIT + 1) * APPEAL_THRESHOLD

----------------------------------------------------------------------------
(* C35: votesFor and votesAgainst of every report are at most 3 (the common  *)
(* value of the six thresholds) at all times, and while the report is in a   *)
(* votable status each counter is below the threshold of its direction in    *)
(* that phase, so at most 2.                                                 *)

Thresholds ==
    { VALIDATION_THRESHOLD, REJECTION_THRESHOLD, VERIFICATION_THRESHOLD,
      REOPEN_THRESHOLD, APPEAL_THRESHOLD, UPHOLD_REJECTION_THRESHOLD }

CountersAtMostThreshold ==
    \A i \in Existing :
       /\ reports[i].votesFor \in 0..Greatest(Thresholds)
       /\ reports[i].votesAgainst \in 0..Greatest(Thresholds)

CountersBelowThresholdWhileVotable ==
    \A i \in Existing, phase \in VotingPhase :
       reports[i].status = PhaseStatus(phase) =>
          /\ reports[i].votesFor < DecidingThreshold(phase, TRUE)
          /\ reports[i].votesAgainst < DecidingThreshold(phase, FALSE)
          /\ reports[i].votesFor <= 2
          /\ reports[i].votesAgainst <= 2

C35_CountersBounded ==
    /\ Thresholds = { 3 }
    /\ CountersAtMostThreshold
    /\ CountersBelowThresholdWhileVotable

\* A rejection review stands at two votes each way, and the authority's
\* rejection has just got its second uphold vote.
C35_Witness ==
    /\ Accepted("voteOnReport")
    /\ 0 \in Existing
    /\ reports[0].status = "Pending_Rejection_Review"
    /\ Counters(reports[0]) = <<2, 2>>
    /\ events = << VoteCast(0, TRUE, "Pending_Rejection_Review") >>

----------------------------------------------------------------------------
(* C36: while a report is in a votable status, votesFor + votesAgainst is at *)
(* most the number of nullifiers registered for (report, phase of that       *)
(* status); a round holds at most 5 votes (2 one way, 3 the other); and at   *)
(* most 5 nullifiers are ever registered for (report, Validation).           *)

\* The phase in which a votable status is voted on.
StatusPhase(status) == CHOOSE phase \in VotingPhase : PhaseStatus(phase) = status

VotesInRound(report) == report.votesFor + report.votesAgainst

MaxVotesPerRound == Greatest(Thresholds) + (Greatest(Thresholds) - 1)

TallyBackedByNullifiers ==
    \A i \in Existing :
       reports[i].status \in Votable =>
          VotesInRound(reports[i])
             <= Cardinality(Registered(i, StatusPhase(reports[i].status)))

RoundHoldsAtMostFive ==
    \A i \in Existing :
       /\ VotesInRound(reports[i]) <= MaxVotesPerRound
       /\ MaxVotesPerRound = 5

ValidationNullifiersAtMostFive ==
    \A i \in Existing :
       /\ Cardinality(Registered(i, "Validation")) <= MaxVotesPerRound
       /\ reports[i].status = "Pending_Validation" =>
             Cardinality(Registered(i, "Validation")) = VotesInRound(reports[i])

C36_TallyWithinRegistry ==
    /\ TallyBackedByNullifiers
    /\ RoundHoldsAtMostFive
    /\ ValidationNullifiersAtMostFive

\* A first verification round has just closed the report with three votes for
\* and two against: five votes in the round, five validation nullifiers before.
C36_Witness ==
    /\ Accepted("voteOnReport")
    /\ 0 \in Existing
    /\ reports[0].status = "Closed"
    /\ reports[0].reopenCount = 0
    /\ VotesInRound(reports[0]) = 5
    /\ Cardinality(Registered(0, "Verification")) = 5
    /\ Cardinality(Registered(0, "Validation")) = 5

----------------------------------------------------------------------------
(* C37: an operation on one report never affects another. An accepted        *)
(* createReport changes no existing report and no vote entry; an accepted    *)
(* voteOnReport, markAsSolved or rejectIssue on report r leaves every other  *)
(* report, every vote entry of another report (and, for the authority        *)
(* actions, every vote entry), the set of submission nullifiers and          *)
(* nextReportId as they were.                                                *)

\* The vote entries of the reports other than i.
VotesOfOthers(i) == { t \in reportVotes : t[1] # i }

CreateTouchesNoOther ==
    lastOp' = Op("createReport", Ok) =>
       /\ \A j \in Existing : j \in DOMAIN reports' /\ reports'[j] = reports[j]
       /\ reportVotes' = reportVotes

VoteTouchesNoOther ==
    \A i \in Existing :
       VoteAcceptedOn(i) =>
          /\ OthersUnchanged(i)
          /\ VotesOfOthers(i)' = VotesOfOthers(i)
          /\ UNCHANGED <<submissionNullifiers, nextReportId>>

AuthorityTouchesNoOther ==
    \A i \in Existing :
       PhaseEntryOn(i) =>
          /\ OthersUnchanged(i)
          /\ UNCHANGED <<reportVotes, submissionNullifiers, nextReportId>>

C37_ReportsIndependent ==
    [][CreateTouchesNoOther /\ VoteTouchesNoOther /\ AuthorityTouchesNoOther]_vars

\* The second report has just been marked solved while the first is still in
\* validation with one vote each way.
C37_Witness ==
    /\ Accepted("markAsSolved")
    /\ nextReportId = 2
    /\ reports[1].status = "Pending_Verification"
    /\ reports[0].status = "Pending_Validation"
    /\ Counters(reports[0]) = <<1, 1>>
    /\ Cardinality(Registered(0, "Validation")) = 2

----------------------------------------------------------------------------
(* C38: markAsSolved and rejectIssue by an authority on an id that was never *)
(* created are rejected with "Invalid state to mark as solved" / "Invalid    *)
(* state to reject" (the zero status is Pending_Validation); the rejected    *)
(* call creates no report and leaves nextReportId alone, and the id is still *)
(* "Report does not exist" to every vote.                                    *)

\* Ids no createReport has assigned yet.
NeverCreated == IdInputs \ Existing

AuthorityOnNeverCreated ==
    \A id \in NeverCreated, authority \in Authorities :
       /\ ReportAt(id).status = "Pending_Validation"
       /\ MarkAsSolvedResult(authority, id) = InvalidStateSolve
       /\ RejectIssueResult(authority, id) = InvalidStateReject

NeverCreatedHasNoVotes ==
    \A id \in NeverCreated, phase \in VotingPhase, n \in 1..MaxNull :
       /\ <<id, phase, n>> \notin reportVotes
       /\ VoteOnReportResult(Relayer, id, n, phase) = ReportNotFound

InvalidStateCreatesNothing ==
    (lastOp'.function \in { "markAsSolved", "rejectIssue" }
        /\ lastOp'.result \in InvalidStateForAction) =>
       /\ DOMAIN reports' = DOMAIN reports
       /\ reports' = reports
       /\ nextReportId' = nextReportId
       /\ NeverCreated' = NeverCreated
       /\ events' = << >>

C38_AuthorityOnNeverCreated ==
    /\ [] (AuthorityOnNeverCreated /\ NeverCreatedHasNoVotes)
    /\ [][InvalidStateCreatesNothing]_vars

\* An authority has just tried to mark id 0 as solved before any report was
\* created.
C38_Witness ==
    /\ lastOp = Op("markAsSolved", InvalidStateSolve)
    /\ nextReportId = 0
    /\ Existing = {}

----------------------------------------------------------------------------
(* C39: the identity simulator's nullifier is a function of (citizenId,      *)
(* reportContext) alone: a successful authentication returns                 *)
(* generateNullifierHash(citizenId, reportContext) and a proof with the      *)
(* prefix the backend accepts, two successive successful authentications of  *)
(* the same citizen for the same context return the same nullifierHash       *)
(* whatever their proofs, and a createReport with a nullifier already        *)
(* consumed is rejected as a duplicate; a request with invalid credentials   *)
(* is answered with an error and carries no proof and no nullifier.          *)

Authenticated == authentication.status = 200

AnswerFollowsCredentials ==
    LET request == authentication.request
        complete == /\ request.citizenId # ""
                    /\ request.password # ""
                    /\ request.reportContext # ""
    IN  authentication # NoAuthentication =>
           /\ Authenticated <=>
                 (complete /\ verifyCitizen(request.citizenId, request.password))
           /\ Authenticated =>
                 /\ authentication.nullifierHash =
                       generateNullifierHash(request.citizenId, request.reportContext)
                 /\ authentication.mockProof \in { generateMockProof(r) : r \in RandomHex }
                 /\ StartsWithValidPrefix(authentication.mockProof)
                 /\ authentication.error = Undefined
           /\ ~Authenticated =>
                 /\ authentication.status = IF complete THEN 401 ELSE 400
                 /\ authentication.error = IF complete THEN InvalidCredentials
                                           ELSE MissingFields
                 /\ authentication.mockProof = Undefined
                 /\ authentication.nullifierHash = NoNullifier

SameCitizenSameContext ==
    (/\ Authenticated
     /\ Authenticated'
     /\ authentication'.request.citizenId = authentication.request.citizenId
     /\ authentication'.request.reportContext = authentication.request.reportContext) =>
       authentication'.nullifierHash = authentication.nullifierHash

SecondSubmissionIsDuplicate ==
    (/\ pipeline.pc = "awaitingChain"
     /\ pipeline'.pc = "idle"
     /\ pipeline.nullifierHash \in submissionNullifiers) =>
       /\ lastOp' = Op("createReport", DuplicateSubmission)
       /\ pipeline'.response = InternalError
       /\ UNCHANGED storage

C39_NullifierDeterministic ==
    /\ [] AnswerFollowsCredentials
    /\ [][SameCitizenSameContext /\ SecondSubmissionIsDuplicate]_vars

\* A citizen authenticated again for a context already reported, with a proof
\* other than the one first submitted, and the second submission was refused:
\* the one report on chain carries the nullifier just issued.
C39_Witness ==
    /\ Authenticated
    /\ lastOp = Op("createReport", DuplicateSubmission)
    /\ nextReportId = 1
    /\ reports[0].submissionNullifier = authentication.nullifierHash
    /\ pipeline.nullifierHash = authentication.nullifierHash
    /\ pipeline.response = InternalError
    /\ authentication.mockProof = generateMockProof(RandomList[2])

----------------------------------------------------------------------------
(* C40: the submit endpoint never reaches the blockchain for an invalid      *)
(* request: without an image, or with a mockProof that does not start with   *)
(* 'zkp_valid_proof_', it answers with a bad-request error before            *)
(* submitReportToChain is called and the chain is untouched. When the        *)
(* on-chain createReport fails the endpoint answers with an error: the       *)
(* success message is returned only after an accepted createReport.          *)

BadRequests == { BadRequestImage, BadRequestProof }

InvalidRequestStopsAtController ==
    \A description \in Descriptions, mockProof \in Proofs, image \in BOOLEAN :
       \A nullifierHash \in SubmissionInputs(MaxReports) :
          (/\ submitReport(description, mockProof, nullifierHash, image)
           /\ ~image \/ ~StartsWithValidPrefix(mockProof)) =>
             /\ pipeline'.response =
                   IF ~image THEN BadRequestImage ELSE BadRequestProof
             /\ pipeline'.pc = "idle"
             /\ pipeline'.stages = << >>
             /\ UNCHANGED <<storage, lastOp, events>>

\* A bad request is never waiting for the chain and never went there.
BadRequestNeverOnChain ==
    pipeline.response \in BadRequests =>
       /\ pipeline.pc = "idle"
       /\ \A k \in 1..Len(pipeline.stages) : pipeline.stages[k] # "chain"

ChainFailureIsAnError ==
    (pipeline.pc = "awaitingChain" /\ pipeline'.pc = "idle") =>
       /\ lastOp'.function = "createReport"
       /\ pipeline'.response = Recorded <=> lastOp'.result = Ok
       /\ lastOp'.result # Ok =>
             (pipeline'.response = InternalError /\ UNCHANGED storage)

SuccessOnlyAfterCreate ==
    (pipeline.by = "controller" /\ pipeline.response = Recorded) =>
       /\ lastOp = Op("createReport", Ok)
       /\ reports[nextReportId - 1].submissionNullifier = pipeline.nullifierHash

C40_InvalidNeverOnChain ==
    /\ [] (BadRequestNeverOnChain /\ SuccessOnlyAfterCreate)
    /\ [][InvalidRequestStopsAtController /\ ChainFailureIsAnError]_vars

\* The endpoint has answered 500 to a valid request whose nullifier the
\* contract had already consumed.
C40_Witness ==
    /\ pipeline.by = "controller"
    /\ pipeline.response = InternalError
    /\ pipeline.stages = << "ipfs", "moderation", "chain" >>
    /\ lastOp = Op("createReport", DuplicateSubmission)
    /\ pipeline.nullifierHash \in submissionNullifiers
    /\ authentication = NoAuthentication

============================================================================
